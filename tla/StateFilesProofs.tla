--------------------------- MODULE StateFilesProofs ---------------------------
(***************************************************************************)
(* Proofs about StateFiles, for any nodes, endpoints, devices, processes,  *)
(* rules and actors, any operations and any files left by earlier          *)
(* sessions: what was changed is undone only by who had read it before.    *)
(***************************************************************************)
EXTENDS StateFiles, FiniteSetTheorems, WellFoundedInduction, TLAPS

-----------------------------------------------------------------------------
(* The contents of the files and the operations on them.                   *)

Keys(f) ==
    CASE f = "swarm" -> Nodes [] f = "connections" -> Aliases [] f = "devices" -> Devices
      [] f = "processes" -> Processes [] f = "policy" -> Rules

Values(f) ==
    CASE f = "swarm" -> Swarm [] f = "connections" -> Endpoints \cup {Nothing}
      [] f = "devices" -> {"none", "paired", "seen", "revoked"}
      [] f = "processes" -> {"none", "listed"} [] f = "policy" -> {"none", "rule"}

Doings(f) ==
    CASE f = "swarm" -> {"allowed", "denied", "unlist", "route", "unroute", "health",
                         "online", "offline", "unknown"}
      [] f = "connections" -> {"connect", "disconnect"}
      [] f = "devices" -> {"pair", "verify", "revoke"}
      [] f = "processes" -> {"register", "beat", "forget"}
      [] f = "policy" -> {"init", "allow_rule", "remove_rule"}

OpOK(op) ==
    /\ op.file \in Files /\ op.do \in Doings(op.file) /\ op.key \in Keys(op.file)
    /\ op.at \subseteq Endpoints
    /\ op.do = "route" => op.arg \in Priorities
    /\ op.do = "health" => op.arg \in {0} \cup Latencies
    /\ op.do = "connect" => \E e \in Endpoints : op.at = {e}

LEMMA ContentsAre == \A f \in Files : Contents(f) = [Keys(f) -> Values(f)]
  BY DEF Files, Contents, Keys, Values

LEMMA UnknownNodeOK == UnknownNode \in Swarm /\ SameHealth(UnknownNode)
  BY DEF UnknownNode, Swarm, Row, NoRow, Health, NoHealth, SameHealth

LEMMA EmptyOK == \A f \in Files : Empty(f) \in Contents(f)
  BY UnknownNodeOK DEF Files, Contents, Empty

LEMMA LeastOfOne == \A e \in Endpoints : Least({e}) = e
  BY StateFilesAssumption DEF Least

LEMMA ProbedOK ==
    ASSUME NEW h \in Health, NEW l \in {0} \cup Latencies
    PROVE  Probed(h, l) \in Health
  BY DEF Health, Probed

LEMMA SetRouteOK ==
    ASSUME NEW v \in Swarm, NEW E \in SUBSET Endpoints, NEW p \in Priorities
    PROVE  SetRoute(v, E, p) \in Swarm /\ SetRoute(v, E, p).health = v.health
  BY DEF SetRoute, Swarm, Row, NoHealth, Health

LEMMA SetRouteHealth ==
    ASSUME NEW v \in Swarm, NEW E \in SUBSET Endpoints, NEW p \in Priorities, SameHealth(v)
    PROVE  SameHealth(SetRoute(v, E, p))
  BY DEF SetRoute, Swarm, Row, NoHealth, Health, SameHealth

LEMMA RemoveRouteOK ==
    ASSUME NEW v \in Swarm, NEW E \in SUBSET Endpoints
    PROVE  /\ RemoveRoute(v, E) \in Swarm /\ RemoveRoute(v, E).health = v.health
           /\ SameHealth(v) => SameHealth(RemoveRoute(v, E))
  BY DEF RemoveRoute, Swarm, Row, NoRow, NoHealth, Health, SameHealth

LEMMA SaveRouteHealthOK ==
    ASSUME NEW v \in Swarm, NEW E \in SUBSET Endpoints, NEW l \in {0} \cup Latencies
    PROVE  /\ SaveRouteHealth(v, E, l) \in Swarm
           /\ \A e \in E : SaveRouteHealth(v, E, l).health[e] = Probed(v.health[e], l)
           /\ \A e \in Endpoints \ E : SaveRouteHealth(v, E, l).health[e] = v.health[e]
           /\ \A e \in Endpoints :
                SaveRouteHealth(v, E, l).routes[e].priority = v.routes[e].priority
           /\ SaveRouteHealth(v, E, l).policy = v.policy
           /\ SaveRouteHealth(v, E, l).status = v.status
           /\ SameHealth(v) => SameHealth(SaveRouteHealth(v, E, l))
  <1> DEFINE H(e) == IF e \in E THEN Probed(v.health[e], l) ELSE v.health[e]
             R(e) == IF e \in E THEN ProbedRow(v.routes[e], Probed(v.health[e], l)) ELSE v.routes[e]
  <1>1. ASSUME NEW e \in Endpoints
        PROVE  /\ H(e) \in Health /\ R(e) \in Row /\ R(e).priority = v.routes[e].priority
               /\ (v.routes[e].priority # Nothing /\ ~v.routes[e].again => v.routes[e].health = v.health[e])
                    => (R(e).priority # Nothing /\ ~R(e).again => R(e).health = H(e))
    <2>1. v.health[e] \in Health /\ v.routes[e] \in Row
      BY DEF Swarm
    <2>2. Probed(v.health[e], l) \in Health
      BY <2>1, ProbedOK
    <2> QED BY <2>1, <2>2 DEF ProbedRow, Row
  <1>2. SaveRouteHealth(v, E, l) = [v EXCEPT !.health = [e \in Endpoints |-> H(e)],
                                            !.routes = [e \in Endpoints |-> R(e)]]
    BY DEF SaveRouteHealth
  <1> HIDE DEF H, R
  <1>3. /\ SaveRouteHealth(v, E, l) \in Swarm
        /\ SaveRouteHealth(v, E, l).policy = v.policy
        /\ SaveRouteHealth(v, E, l).status = v.status
        /\ \A e \in Endpoints : /\ SaveRouteHealth(v, E, l).health[e] = H(e)
                                /\ SaveRouteHealth(v, E, l).routes[e] = R(e)
    <2> DEFINE hs == [e \in Endpoints |-> H(e)]
               rs == [e \in Endpoints |-> R(e)]
    <2>1. hs \in [Endpoints -> Health] /\ rs \in [Endpoints -> Row]
      BY <1>1
    <2>2. \A e \in Endpoints : hs[e] = H(e) /\ rs[e] = R(e)
      OBVIOUS
    <2>3. SaveRouteHealth(v, E, l) = [v EXCEPT !.health = hs, !.routes = rs]
      BY <1>2
    <2> HIDE DEF hs, rs
    <2>4. SaveRouteHealth(v, E, l) \in Swarm
      BY <2>1, <2>3 DEF Swarm
    <2>5. /\ SaveRouteHealth(v, E, l).health = hs /\ SaveRouteHealth(v, E, l).routes = rs
          /\ SaveRouteHealth(v, E, l).policy = v.policy
          /\ SaveRouteHealth(v, E, l).status = v.status
      BY <2>3 DEF Swarm
    <2> QED BY <2>2, <2>4, <2>5
  <1> QED BY <1>1, <1>3 DEF SameHealth, H

\* What a change of the swarm leaves of the health of routes.
LEMMA SwarmOK ==
    ASSUME NEW op, OpOK(op), op.file = "swarm", NEW v \in Swarm
    PROVE  /\ Updated(op, v) \in Swarm
           /\ SameHealth(v) => SameHealth(Updated(op, v))
           /\ op.do # "health" => Updated(op, v).health = v.health
           /\ op.do = "health" => Updated(op, v) = SaveRouteHealth(v, op.at, op.arg)
  <1>1. CASE op.do \in {"allowed", "denied"}
    BY <1>1 DEF Updated, SetWhitelist, Swarm, SameHealth
  <1>2. CASE op.do = "unlist"
    BY <1>2 DEF Updated, RemoveWhitelist, Swarm, SameHealth
  <1>3. CASE op.do = "route"
    <2>1. Updated(op, v) = SetRoute(v, op.at, op.arg)
      BY <1>3 DEF Updated
    <2> QED BY <1>3, <2>1, SetRouteOK, SetRouteHealth DEF OpOK
  <1>4. CASE op.do = "unroute"
    <2>1. Updated(op, v) = RemoveRoute(v, op.at)
      BY <1>4 DEF Updated
    <2> QED BY <1>4, <2>1, RemoveRouteOK DEF OpOK
  <1>5. CASE op.do = "health"
    <2>1. Updated(op, v) = SaveRouteHealth(v, op.at, op.arg)
      BY <1>5 DEF Updated
    <2>2. op.at \in SUBSET Endpoints /\ op.arg \in {0} \cup Latencies
      BY <1>5 DEF OpOK
    <2>3. /\ SaveRouteHealth(v, op.at, op.arg) \in Swarm
          /\ SameHealth(v) => SameHealth(SaveRouteHealth(v, op.at, op.arg))
      BY <2>2, SaveRouteHealthOK
    <2> QED BY <1>5, <2>1, <2>3
  <1>6. CASE op.do \in {"online", "offline", "unknown"}
    BY <1>6 DEF Updated, SaveNodeRecord, Swarm, SameHealth
  <1> QED BY <1>1, <1>2, <1>3, <1>4, <1>5, <1>6 DEF OpOK, Doings

\* What a value says of a fact about its key.
Of(v, x) ==
    CASE PartOf(x) = "policy" -> v.policy
      [] PartOf(x) = "status" -> v.status
      [] PartOf(x) = "priority" -> v.routes[EndpointOf(x)].priority
      [] PartOf(x) = "fails" -> v.health[EndpointOf(x)].fails
      [] OTHER -> v

LEMMA SaysOf == \A c, x : Says(c, x) = Of(c[KeyOf(x)], x)
  BY DEF Says, Of

LEMMA FactOK ==
    ASSUME NEW x \in Facts
    PROVE  /\ FileOf(x) \in Files /\ KeyOf(x) \in Keys(FileOf(x))
           /\ FileOf(x) # "swarm" => PartOf(x) = "entry"
           /\ FileOf(x) = "swarm" =>
                \/ PartOf(x) \in {"policy", "status"}
                \/ PartOf(x) \in {"priority", "fails"} /\ EndpointOf(x) \in Endpoints
  BY DEF Facts, FileOf, KeyOf, PartOf, EndpointOf, Files, Keys

\* An operation makes of a node what was asked, and leaves what was not.
LEMMA SwarmSays ==
    ASSUME NEW op, OpOK(op), op.file = "swarm", NEW v \in Swarm,
           NEW x \in Facts, FileOf(x) = "swarm", KeyOf(x) = op.key
    PROVE  /\ ~Asks(op, x) => Of(Updated(op, v), x) = Of(v, x)
           /\ Asks(op, x) /\ (op.do = "health" /\ op.arg = 0 => kept[x] = Of(v, x))
                => Of(Updated(op, v), x) = Asked(op, x)
  <1>0. \/ PartOf(x) \in {"policy", "status"}
        \/ PartOf(x) \in {"priority", "fails"} /\ EndpointOf(x) \in Endpoints
    BY FactOK
  <1>1. CASE op.do \in {"allowed", "denied"}
    <2>1. /\ Updated(op, v).policy = op.do /\ Updated(op, v).status = v.status
          /\ Updated(op, v).routes = v.routes /\ Updated(op, v).health = v.health
      BY <1>1 DEF Updated, SetWhitelist, Swarm
    <2> QED BY <1>0, <1>1, <2>1 DEF Of, Asks, Asked
  <1>2. CASE op.do = "unlist"
    <2>1. /\ Updated(op, v).policy = "unlisted" /\ Updated(op, v).status = v.status
          /\ Updated(op, v).routes = v.routes /\ Updated(op, v).health = v.health
      BY <1>2 DEF Updated, RemoveWhitelist, Swarm
    <2> QED BY <1>0, <1>2, <2>1 DEF Of, Asks, Asked
  <1>3. CASE op.do = "route"
    <2>1. /\ Updated(op, v).policy = v.policy /\ Updated(op, v).status = v.status
          /\ Updated(op, v).health = v.health
          /\ \A e \in Endpoints : Updated(op, v).routes[e].priority =
                IF e \in op.at THEN op.arg ELSE v.routes[e].priority
      BY <1>3 DEF Updated, SetRoute, Swarm
    <2> QED BY <1>0, <1>3, <2>1 DEF Of, Asks, Asked
  <1>4. CASE op.do = "unroute"
    <2>1. /\ Updated(op, v).policy = v.policy /\ Updated(op, v).status = v.status
          /\ Updated(op, v).health = v.health
          /\ \A e \in Endpoints : Updated(op, v).routes[e].priority =
                IF e \in op.at THEN Nothing ELSE v.routes[e].priority
      BY <1>4 DEF Updated, RemoveRoute, NoRow, Swarm
    <2> QED BY <1>0, <1>4, <2>1 DEF Of, Asks, Asked
  <1>5. CASE op.do = "health"
    <2>1. op.at \in SUBSET Endpoints /\ op.arg \in {0} \cup Latencies
      BY <1>5 DEF OpOK
    <2>2. Updated(op, v) = SaveRouteHealth(v, op.at, op.arg)
      BY <1>5 DEF Updated
    <2>3. /\ Updated(op, v).policy = v.policy /\ Updated(op, v).status = v.status
          /\ \A e \in Endpoints : Updated(op, v).routes[e].priority = v.routes[e].priority
          /\ \A e \in op.at : Updated(op, v).health[e] = Probed(v.health[e], op.arg)
          /\ \A e \in Endpoints \ op.at : Updated(op, v).health[e] = v.health[e]
      <3> DEFINE E == op.at
                 l == op.arg
      <3>1. E \in SUBSET Endpoints /\ l \in {0} \cup Latencies
        BY <2>1
      <3> HIDE DEF E, l
      <3>2. LET w == SaveRouteHealth(v, E, l) IN
            /\ w.policy = v.policy /\ w.status = v.status
            /\ \A e \in Endpoints : w.routes[e].priority = v.routes[e].priority
            /\ \A e \in E : w.health[e] = Probed(v.health[e], l)
            /\ \A e \in Endpoints \ E : w.health[e] = v.health[e]
        BY <3>1, SaveRouteHealthOK
      <3> QED BY <2>2, <3>2 DEF E, l
    <2>4. \A e \in op.at : Updated(op, v).health[e].fails =
             IF op.arg = 0 THEN v.health[e].fails + 1 ELSE 0
      <3> SUFFICES ASSUME NEW e \in op.at
                   PROVE  Updated(op, v).health[e].fails =
                            IF op.arg = 0 THEN v.health[e].fails + 1 ELSE 0
        OBVIOUS
      <3> DEFINE h == v.health[e]
      <3>1. Updated(op, v).health[e] = Probed(h, op.arg)
        BY <2>3
      <3>2. Probed(h, op.arg).fails = IF op.arg = 0 THEN h.fails + 1 ELSE 0
        BY DEF Probed
      <3> QED BY <3>1, <3>2
    <2> QED BY <1>0, <1>5, <2>3, <2>4 DEF Of, Asks, Asked
  <1>6. CASE op.do \in {"online", "offline", "unknown"}
    <2>1. /\ Updated(op, v).policy = v.policy /\ Updated(op, v).status = op.do
          /\ Updated(op, v).routes = v.routes /\ Updated(op, v).health = v.health
      BY <1>6 DEF Updated, SaveNodeRecord, Swarm
    <2> QED BY <1>0, <1>6, <2>1 DEF Of, Asks, Asked
  <1> QED BY <1>1, <1>2, <1>3, <1>4, <1>5, <1>6 DEF OpOK, Doings

LEMMA UpdatedOK ==
    ASSUME NEW op, OpOK(op), NEW v \in Values(op.file)
    PROVE  Updated(op, v) \in Values(op.file)
  <1>1. CASE op.file = "swarm"
    BY <1>1, SwarmOK DEF Values
  <1>2. CASE op.file = "connections"
    BY <1>2, LeastOfOne DEF OpOK, Doings, Values, Updated
  <1>3. CASE op.file \in {"devices", "processes", "policy"}
    BY <1>3 DEF OpOK, Doings, Values, Updated
  <1> QED BY <1>1, <1>2, <1>3 DEF OpOK, Files

LEMMA WrittenOK ==
    ASSUME NEW op, OpOK(op), NEW c \in Contents(op.file)
    PROVE  /\ Written(op, c) \in Contents(op.file)
           /\ op.do = "init" => Written(op, c) = Empty("policy") /\ op.file = "policy"
           /\ op.do # "init" => /\ Written(op, c) = [c EXCEPT ![op.key] = Updated(op, c[op.key])]
                                /\ Written(op, c)[op.key] = Updated(op, c[op.key])
                                /\ \A k \in Keys(op.file) \ {op.key} : Written(op, c)[k] = c[k]
  <1>1. c \in [Keys(op.file) -> Values(op.file)] /\ op.key \in Keys(op.file) /\ op.file \in Files
    BY ContentsAre DEF OpOK
  <1>2. Updated(op, c[op.key]) \in Values(op.file)
    BY <1>1, UpdatedOK
  <1>3. CASE op.do = "init"
    BY <1>1, <1>3, EmptyOK DEF OpOK, Doings, Files, Written
  <1>4. CASE op.do # "init"
    BY <1>1, <1>2, <1>4, ContentsAre DEF Written
  <1> QED BY <1>3, <1>4

\* So of a whole file.
LEMMA WrittenSays ==
    ASSUME NEW op, OpOK(op), NEW c \in Contents(op.file), op.do = "init" => c = Empty("policy"),
           NEW x \in Facts, FileOf(x) = op.file
    PROVE  /\ ~Asks(op, x) => Says(Written(op, c), x) = Says(c, x)
           /\ Asks(op, x) /\ (op.do = "health" /\ op.arg = 0 => kept[x] = Says(c, x))
                => Says(Written(op, c), x) = Asked(op, x)
  <1>1. KeyOf(x) \in Keys(op.file) /\ op.file \in Files
    BY FactOK
  <1>2. CASE op.do = "init"
    <2>1. Written(op, c) = c /\ ~Asks(op, x)
      BY <1>2, WrittenOK DEF Asks
    <2> QED BY <2>1
  <1>3. CASE op.do # "init" /\ KeyOf(x) # op.key
    <2>1. Written(op, c)[KeyOf(x)] = c[KeyOf(x)] /\ ~Asks(op, x)
      BY <1>1, <1>3, WrittenOK DEF Asks
    <2> QED BY <2>1, SaysOf
  <1>4. CASE op.do # "init" /\ KeyOf(x) = op.key
    <2> DEFINE v == c[op.key]
    <2>1. /\ Says(c, x) = Of(v, x) /\ Says(Written(op, c), x) = Of(Updated(op, v), x)
          /\ v \in Values(op.file)
      BY <1>1, <1>4, WrittenOK, SaysOf, ContentsAre
    <2>2. CASE op.file = "swarm"
      <3>1. v \in Swarm
        BY <2>1, <2>2 DEF Values
      <3> HIDE DEF v
      <3> QED BY <1>4, <2>1, <2>2, <3>1, SwarmSays
    <2>3. CASE op.file # "swarm"
      <3>1. PartOf(x) = "entry"
        BY <2>3, FactOK
      <3>2. Of(v, x) = v /\ Of(Updated(op, v), x) = Updated(op, v)
        BY <3>1 DEF Of
      <3> HIDE DEF v
      <3>3. CASE op.do = "connect"
        <4>1. PICK e \in Endpoints : op.at = {e}
          BY <3>3 DEF OpOK
        <4>2. Updated(op, v) = e /\ Asked(op, x) = e
          BY <3>3, <4>1, LeastOfOne DEF Updated, Asked
        <4> QED BY <2>1, <3>2, <3>3, <4>2, <1>4, <1>1 DEF Asks
      <3>4. CASE op.do # "connect"
        BY <1>1, <1>4, <2>1, <2>3, <3>2, <3>4 DEF OpOK, Doings, Files, Updated, Asks, Asked
      <3> QED BY <3>3, <3>4
    <2> QED BY <2>2, <2>3
  <1> QED BY <1>2, <1>3, <1>4

-----------------------------------------------------------------------------
(* The state, and what an actor that is about to write may count on: its   *)
(* copy says what is settled, as the file does.                            *)

FilesOK(d) == d = [f \in Files |-> d[f]] /\ \A f \in Files : d[f] \in Contents(f)
NodesOK(c) == \A n \in Nodes : SameHealth(c[n])
LifeOK(l) == l \in [Devices \cup Processes -> {"new", "live", "over"}]

ActorOK(x) ==
    /\ x = [op |-> x.op, pc |-> x.pc, copy |-> x.copy, after |-> x.after, todo |-> x.todo]
    /\ x.pc \in {"idle", "probe", "write"} /\ x.after \in BOOLEAN
    /\ x.op.file \in Files /\ x.todo \subseteq Nodes \X BOOLEAN
    /\ x.pc # "idle" => OpOK(x.op)
    /\ x.pc = "probe" => x.op.do = "health"
    /\ x.todo # {} => x.op.file = "swarm" /\ x.op.do # "health"
    /\ x.pc = "write" => /\ x.copy \in Contents(x.op.file)
                         /\ x.op.file = "swarm" => NodesOK(x.copy)
                         /\ x.op.do = "init" => x.copy = Empty("policy")

\* A content of file f says what is settled about it.
Agrees(c, f, k) == \A x \in DOMAIN k : FileOf(x) = f => Says(c, x) = k[x]

StateInv ==
    /\ FilesOK(disk) /\ NodesOK(disk["swarm"]) /\ made \in BOOLEAN
    /\ ~made => disk["policy"] = Empty("policy")
    /\ actor = [a \in Actors |-> actor[a]] /\ \A a \in Actors : ActorOK(actor[a])
    /\ ops \in 0 .. MaxOps /\ LifeOK(life)
    /\ DOMAIN kept \subseteq Facts /\ admitted \subseteq Devices

KeptInv ==
    /\ \A f \in Files : Agrees(disk[f], f, kept)
    /\ \A a \in Actors : actor[a].pc = "write" =>
          Agrees(actor[a].copy, actor[a].op.file, kept) /\ ~actor[a].after
    /\ admitted = {}

LEMMA StateGivesType == StateInv => TypeOK
  <1> SUFFICES ASSUME StateInv PROVE TypeOK
    OBVIOUS
  <1>1. \A f \in Files : disk[f] \in Contents(f)
    BY DEF StateInv, FilesOK
  <1>2. ASSUME NEW a \in Actors
        PROVE  /\ actor[a].pc \in {"idle", "probe", "write"} /\ actor[a].op.file \in Files
               /\ actor[a].pc = "write" => actor[a].copy \in Contents(actor[a].op.file)
               /\ actor[a].todo \subseteq Nodes \X BOOLEAN
    BY DEF StateInv, ActorOK
  <1>3. \A n \in Nodes, e \in Endpoints : disk["swarm"][n].health[e].fails \in Nat
    BY <1>1 DEF Files, Contents, Swarm, Health
  <1>4. /\ made \in BOOLEAN /\ ops \in 0 .. MaxOps
        /\ life \in [Devices \cup Processes -> {"new", "live", "over"}]
        /\ DOMAIN kept \subseteq Facts /\ admitted \subseteq Devices
    BY DEF StateInv, LifeOK
  <1> QED BY <1>1, <1>2, <1>3, <1>4 DEF TypeOK

\* An actor goes on to x, or to idle, without a write.
LEMMA Quiet ==
    ASSUME StateInv, KeptInv, NEW a \in Actors, NEW x, ActorOK(x),
           actor' = [actor EXCEPT ![a] = x],
           UNCHANGED <<disk, made, kept, admitted>>,
           ops' \in 0 .. MaxOps, LifeOK(life'),
           x.pc = "write" => Agrees(x.copy, x.op.file, kept) /\ ~x.after
    PROVE  StateInv' /\ KeptInv'
  <1>1. /\ actor' = [b \in Actors |-> actor'[b]] /\ actor'[a] = x
        /\ \A b \in Actors \ {a} : actor'[b] = actor[b]
    BY DEF StateInv
  <1>2. StateInv'
    BY <1>1 DEF StateInv
  <1>3. ASSUME NEW b \in Actors, actor'[b].pc = "write"
        PROVE  Agrees(actor'[b].copy, actor'[b].op.file, kept') /\ ~actor'[b].after
    BY <1>1, <1>3 DEF KeptInv
  <1> QED BY <1>2, <1>3 DEF KeptInv

LEMMA IdleOK == ActorOK(Idle) /\ Idle.pc = "idle" /\ Idle.todo = {}
  BY DEF ActorOK, Idle, NoOp, Op, Files

-----------------------------------------------------------------------------
(* Reading.                                                                *)

\* A function has read the file of op, and goes on to write it or ends.
LEMMA ReadsKeep ==
    ASSUME StateInv, KeptInv, NEW a \in Actors, NEW op, OpOK(op),
           NEW todo \in SUBSET (Nodes \X BOOLEAN),
           todo # {} => op.file = "swarm" /\ op.do # "health",
           Reads(a, op, todo), ops' \in 0 .. MaxOps, LifeOK(life')
    PROVE  StateInv' /\ KeptInv'
  <1> DEFINE after == op.do = "verify" /\ IsKept(<<"devices", op.key, "entry", Nothing>>, "revoked")
             x == [op |-> op, pc |-> "write", copy |-> disk[op.file], after |-> after, todo |-> todo]
  <1>1. UNCHANGED <<disk, made, kept, admitted>>
    BY DEF Reads
  <1>2. CASE Goes(op, disk[op.file])
    <2>1. actor' = [actor EXCEPT ![a] = x]
      BY <1>2 DEF Reads
    <2>2. op.file \in Files /\ disk[op.file] \in Contents(op.file)
      BY DEF StateInv, FilesOK, OpOK
    <2>3. op.do = "init" => op.file = "policy" /\ disk["policy"] = Empty("policy")
      BY <1>2, <2>2 DEF Goes, OpOK, Doings, Files, StateInv
    <2>4. ~after
      <3>1. CASE op.do # "verify"
        BY <3>1
      <3>2. CASE op.do = "verify"
        <4> DEFINE y == <<"devices", op.key, "entry", Nothing>>
        <4>1. op.file = "devices" /\ disk["devices"][op.key] # "revoked"
          BY <1>2, <2>2, <3>2 DEF Goes, MobileStatus, OpOK, Doings, Files
        <4>2. FileOf(y) = "devices" /\ Says(disk["devices"], y) = disk["devices"][op.key]
          BY DEF FileOf, KeyOf, PartOf, Says
        <4> HIDE DEF y
        <4>3. y \in DOMAIN kept => kept[y] = disk["devices"][op.key]
          BY <2>2, <4>1, <4>2 DEF KeptInv, Agrees
        <4> QED BY <4>1, <4>3 DEF IsKept, y
      <3> QED BY <3>1, <3>2
    <2>b. after \in BOOLEAN
      OBVIOUS
    <2> HIDE DEF after
    <2>5. ActorOK(x)
      <3>1. ASSUME op.file = "swarm" PROVE NodesOK(disk[op.file])
        <4>1. NodesOK(disk["swarm"])
          BY DEF StateInv
        <4> QED BY <3>1, <4>1
      <3>2. op.do = "init" => disk[op.file] = Empty("policy")
        BY <2>3
      <3> QED BY <2>2, <2>b, <3>1, <3>2 DEF ActorOK
    <2>6. Agrees(x.copy, x.op.file, kept) /\ ~x.after
      BY <2>2, <2>4 DEF KeptInv
    <2> HIDE DEF x
    <2> QED BY <1>1, <2>1, <2>5, <2>6, Quiet
  <1>3. CASE ~Goes(op, disk[op.file])
    <2>1. actor' = [actor EXCEPT ![a] = Idle]
      BY <1>3 DEF Reads
    <2> QED BY <1>1, <2>1, IdleOK, Quiet
  <1> QED BY <1>2, <1>3

LEMMA LoadKeeps ==
    ASSUME StateInv, KeptInv, NEW a \in Actors, NEW op, OpOK(op), Load(a, op)
    PROVE  StateInv' /\ KeptInv'
  <1>1. ops' \in 0 .. MaxOps /\ Reads(a, op, {}) /\ UNCHANGED life
    BY StateFilesAssumption DEF Load, Begins, StateInv
  <1> QED BY <1>1, ReadsKeep DEF StateInv

LEMMA ChangeSwarmKeeps ==
    ASSUME StateInv, KeptInv, NEW a \in Actors, NEW n \in Nodes,
           ChangeWhitelist(a, n) \/ ChangeRoutes(a, n) \/ ProbeNode(a, n)
    PROVE  StateInv' /\ KeptInv'
  <1>1. PICK do \in Doings("swarm"), E \in SUBSET Endpoints, p \in {0} \cup Priorities :
            /\ do = "route" => p \in Priorities
            /\ do # "health" /\ Load(a, Op("swarm", do, n, E, p))
    <2>1. CASE ChangeWhitelist(a, n)
      BY <2>1 DEF ChangeWhitelist, Doings
    <2>2. CASE ChangeRoutes(a, n)
      BY <2>2 DEF ChangeRoutes, Doings
    <2>3. CASE ProbeNode(a, n)
      BY <2>3 DEF ProbeNode, Answers, Doings
    <2> QED BY <2>1, <2>2, <2>3
  <1>2. OpOK(Op("swarm", do, n, E, p)) /\ Op("swarm", do, n, E, p).file = "swarm"
    BY <1>1 DEF OpOK, Op, Files, Keys, Doings
  <1> QED BY <1>1, <1>2, LoadKeeps

LEMMA ChangeOtherKeeps ==
    ASSUME StateInv, KeptInv, NEW a \in Actors,
           \/ \E n \in Aliases : ChangeConnection(a, n)
           \/ \E r \in Rules : ChangePolicy(a, r)
           \/ \E d \in Devices : UseDevice(a, d)
           \/ \E p \in Processes : Heartbeat(a, p) \/ ForgetProcess(a, p)
    PROVE  StateInv' /\ KeptInv'
  <1>1. CASE \E n \in Aliases : ChangeConnection(a, n)
    <2>1. PICK n \in Aliases : ChangeConnection(a, n)
      BY <1>1
    <2>2. PICK op \in {Op("connections", "connect", n, {e}, 0) : e \in Endpoints}
                       \cup {Op("connections", "disconnect", n, {}, 0)} : Load(a, op)
      BY <2>1 DEF ChangeConnection
    <2>3. OpOK(op)
      BY <2>2 DEF OpOK, Op, Files, Keys, Doings
    <2> QED BY <2>2, <2>3, LoadKeeps
  <1>2. CASE \E r \in Rules : ChangePolicy(a, r)
    <2>1. PICK r \in Rules, do \in {"init", "allow_rule", "remove_rule"} :
              Load(a, Op("policy", do, r, {}, 0))
      BY <1>2 DEF ChangePolicy
    <2>2. LET op == Op("policy", do, r, {}, 0) IN OpOK(op)
      BY <2>1 DEF OpOK, Op, Files, Keys, Doings
    <2> QED BY <2>1, <2>2, LoadKeeps
  <1>3. CASE \E p \in Processes : Heartbeat(a, p) \/ ForgetProcess(a, p)
    <2>1. PICK p \in Processes, do \in {"beat", "forget"} :
              Load(a, Op("processes", do, p, {}, 0))
      BY <1>3 DEF Heartbeat, ForgetProcess
    <2>2. LET op == Op("processes", do, p, {}, 0) IN OpOK(op)
      BY <2>1 DEF OpOK, Op, Files, Keys, Doings
    <2> QED BY <2>1, <2>2, LoadKeeps
  <1>4. CASE \E d \in Devices : UseDevice(a, d)
    <2>1. PICK d \in Devices, do \in {"verify", "revoke"} : Load(a, Op("devices", do, d, {}, 0))
      BY <1>4 DEF UseDevice
    <2>2. LET op == Op("devices", do, d, {}, 0) IN OpOK(op)
      BY <2>1 DEF OpOK, Op, Files, Keys, Doings
    <2> QED BY <2>1, <2>2, LoadKeeps
  <1> QED BY <1>1, <1>2, <1>3, <1>4

LEMMA PickRouteStep ==
    ASSUME StateInv, NEW a \in Actors, NEW n \in Nodes, PickRoute(a, n)
    PROVE  \E x : ActorOK(x) /\ x.pc = "probe" /\ actor' = [actor EXCEPT ![a] = x]
  <1>1. PICK e \in Endpoints, l \in {0} \cup Latencies :
            actor' = [actor EXCEPT ![a] = [Idle EXCEPT !.pc = "probe",
                                              !.op = Op("swarm", "health", n, {e}, l)]]
    <2>1. SavedOf(n) \in Endpoints \cup {Nothing}
      BY DEF StateInv, FilesOK, Files, Contents, SavedOf
    <2> QED BY <2>1 DEF PickRoute, Routed
  <1> DEFINE op == Op("swarm", "health", n, {e}, l)
             x == [Idle EXCEPT !.pc = "probe", !.op = op]
  <1>2. ActorOK(x) /\ x.pc = "probe"
    <2>1. OpOK(op) /\ op.file \in Files /\ op.do = "health"
      BY DEF OpOK, Op, Files, Keys, Doings
    <2> HIDE DEF op
    <2>2. Idle \in [pc : {"idle", "probe"}, op : {op, Idle.op}, copy : {Idle.copy},
                    after : {Idle.after}, todo : {{}}]
          /\ Idle.after \in BOOLEAN
      BY IdleOK DEF ActorOK
    <2>3. x \in [pc : {"idle", "probe"}, op : {op, Idle.op}, copy : {Idle.copy},
                 after : {Idle.after}, todo : {{}}]
          /\ x.pc = "probe" /\ x.op = op
      BY <2>2
    <2> HIDE DEF x
    <2> QED BY <2>1, <2>2, <2>3, IdleOK DEF ActorOK
  <1>3. actor' = [actor EXCEPT ![a] = x]
    BY <1>1
  <1> HIDE DEF x
  <1> QED BY <1>2, <1>3

LEMMA PickRouteKeeps ==
    ASSUME StateInv, KeptInv, NEW a \in Actors, NEW n \in Nodes, PickRoute(a, n)
    PROVE  StateInv' /\ KeptInv'
  <1>1. PICK x : ActorOK(x) /\ x.pc = "probe" /\ actor' = [actor EXCEPT ![a] = x]
    BY PickRouteStep
  <1>2. /\ UNCHANGED <<disk, made, kept, admitted>>
        /\ ops' \in 0 .. MaxOps /\ LifeOK(life')
    BY StateFilesAssumption DEF PickRoute, Begins, StateInv
  <1> QED BY <1>1, <1>2, Quiet

LEMMA ReadForHealthKeeps ==
    ASSUME StateInv, KeptInv, NEW a \in Actors, ReadForHealth(a)
    PROVE  StateInv' /\ KeptInv'
  <1>1. Reads(a, actor[a].op, {}) /\ UNCHANGED <<ops, life>> /\ actor[a].pc = "probe"
    BY DEF ReadForHealth
  <1>2. OpOK(actor[a].op) /\ actor[a].op.do = "health" /\ ops' \in 0 .. MaxOps /\ LifeOK(life')
    BY <1>1 DEF StateInv, ActorOK
  <1>3. actor[a].op.file = "swarm"
    BY <1>2 DEF OpOK, Files, Doings
  <1> QED BY <1>1, <1>2, <1>3, ReadsKeep

LEMMA ProbeAllNodesKeeps ==
    ASSUME StateInv, KeptInv, NEW a \in Actors, ProbeAllNodes(a)
    PROVE  StateInv' /\ KeptInv'
  <1>1. PICK n \in TopologyNodes, do \in {"online", "offline", "unknown"} :
            Reads(a, Op("swarm", do, n, {}, 0), {<<m, HasRoute(m)>> : m \in TopologyNodes \ {n}})
    BY DEF ProbeAllNodes, Answers
  <1> DEFINE op == Op("swarm", do, n, {}, 0)
             todo == {<<m, HasRoute(m)>> : m \in TopologyNodes \ {n}}
  <1>2. n \in Nodes /\ do \in {"online", "offline", "unknown"}
    BY DEF TopologyNodes
  <1>3. OpOK(op) /\ op.file = "swarm" /\ op.do # "health"
    BY <1>2 DEF OpOK, Op, Files, Keys, Doings
  <1>4. todo \in SUBSET (Nodes \X BOOLEAN)
    <2>1. TopologyNodes \subseteq Nodes
      BY DEF TopologyNodes
    <2>2. \A m : HasRoute(m) \in BOOLEAN
      BY DEF HasRoute
    <2> HIDE DEF HasRoute
    <2> QED BY <2>1, <2>2
  <1>5. ops' \in 0 .. MaxOps /\ UNCHANGED life
    BY StateFilesAssumption DEF ProbeAllNodes, Begins, StateInv
  <1> HIDE DEF op, todo
  <1>6. Reads(a, op, todo)
    BY <1>1 DEF op, todo
  <1> QED BY <1>3, <1>4, <1>5, <1>6, ReadsKeep DEF StateInv

\* What has a life is first written when it begins.
LEMMA StartsKeep ==
    ASSUME StateInv, KeptInv, NEW a \in Actors,
           NEW op, OpOK(op), op.do \in {"pair", "register"}, Starts(a, op)
    PROVE  StateInv' /\ KeptInv'
  <1>1. op.key \in Devices \cup Processes
    BY DEF OpOK, Files, Doings, Keys
  <1>2. life' = [life EXCEPT ![op.key] = "live"] /\ LifeOK(life')
    BY <1>1 DEF Starts, StateInv, LifeOK
  <1>3. Reads(a, op, {}) /\ ops' \in 0 .. MaxOps
    BY StateFilesAssumption DEF Starts, Begins, StateInv
  <1> QED BY <1>2, <1>3, ReadsKeep

LEMMA BeginLifeKeeps ==
    ASSUME StateInv, KeptInv, NEW a \in Actors,
           (\E d \in Devices : Pair(a, d)) \/ (\E p \in Processes : Register(a, p))
    PROVE  StateInv' /\ KeptInv'
  <1>1. CASE \E d \in Devices : Pair(a, d)
    <2>1. PICK d \in Devices : Starts(a, Op("devices", "pair", d, {}, 0))
      BY <1>1 DEF Pair
    <2>2. LET op == Op("devices", "pair", d, {}, 0) IN OpOK(op) /\ op.do = "pair"
      BY DEF OpOK, Op, Files, Keys, Doings
    <2> QED BY <2>1, <2>2, StartsKeep
  <1>2. CASE \E p \in Processes : Register(a, p)
    <2>1. PICK p \in Processes : Starts(a, Op("processes", "register", p, {}, 0))
      BY <1>2 DEF Register
    <2>2. LET op == Op("processes", "register", p, {}, 0) IN OpOK(op) /\ op.do = "register"
      BY DEF OpOK, Op, Files, Keys, Doings
    <2> QED BY <2>1, <2>2, StartsKeep
  <1> QED BY <1>1, <1>2

LEMMA EndsKeeps ==
    ASSUME StateInv, KeptInv, NEW x \in Devices \cup Processes, Ends(x)
    PROVE  StateInv' /\ KeptInv'
  <1>1. /\ UNCHANGED <<disk, made, actor, kept, admitted>>
        /\ ops' \in 0 .. MaxOps /\ LifeOK(life')
    BY StateFilesAssumption DEF Ends, StateInv, LifeOK
  <1>2. StateInv'
    BY <1>1 DEF StateInv
  <1> QED BY <1>1, <1>2 DEF KeptInv

-----------------------------------------------------------------------------
(* Writing.                                                                *)

\* The file becomes what the writer made of its copy.
LEMMA WriteFacts ==
    ASSUME StateInv, NEW a \in Actors, actor[a].pc = "write",
           NEW next, Saves(a, actor[a].op, next)
    PROVE  LET op == actor[a].op
               w == Written(op, actor[a].copy) IN
           /\ OpOK(op) /\ w \in Contents(op.file) /\ actor[a].copy \in Contents(op.file)
           /\ op.do = "init" => actor[a].copy = Empty("policy")
           /\ FilesOK(disk') /\ disk'[op.file] = w
           /\ \A f \in Files \ {op.file} : disk'[f] = disk[f]
           /\ actor' = [b \in Actors |-> actor'[b]] /\ actor'[a] = next
           /\ \A b \in Actors \ {a} : actor'[b] = actor[b]
  <1> DEFINE op == actor[a].op
             f == op.file
             w == Written(op, actor[a].copy)
  <1>1. /\ OpOK(op) /\ f \in Files /\ actor[a].copy \in Contents(f)
        /\ op.do = "init" => actor[a].copy = Empty("policy")
    BY DEF StateInv, ActorOK
  <1>2. w \in Contents(f)
    BY <1>1, WrittenOK
  <1>3. disk' = [disk EXCEPT ![f] = w] /\ actor' = [actor EXCEPT ![a] = next]
    BY DEF Saves
  <1> HIDE DEF w
  <1>4. /\ FilesOK(disk') /\ disk'[f] = w
        /\ \A g \in Files \ {f} : disk'[g] = disk[g]
    BY <1>1, <1>2, <1>3 DEF StateInv, FilesOK
  <1>5. /\ actor' = [b \in Actors |-> actor'[b]] /\ actor'[a] = next
        /\ \A b \in Actors \ {a} : actor'[b] = actor[b]
    BY <1>3 DEF StateInv
  <1> QED BY <1>1, <1>2, <1>4, <1>5 DEF w

\* A writer ends, or goes on with the next node and the swarm it has written.
GoesOnOK(x, next) ==
    \/ next = Idle
    \/ /\ x.op.file = "swarm" /\ ActorOK(next) /\ next.pc = "write"
       /\ next.op.file = "swarm" /\ next.copy = Written(x.op, x.copy)
       /\ next.after = x.after

LEMMA SavesKeepState ==
    ASSUME StateInv, KeptInv, NEW a \in Actors, actor[a].pc = "write",
           NEW next, GoesOnOK(actor[a], next), Saves(a, actor[a].op, next)
    PROVE  StateInv'
  <1> DEFINE op == actor[a].op
  <1>1. OpOK(op) /\ ActorOK(actor[a]) /\ ActorOK(next)
    BY IdleOK DEF StateInv, ActorOK, GoesOnOK
  <1>2. /\ FilesOK(disk') /\ actor[a].copy \in Contents(op.file)
        /\ disk'[op.file] = Written(op, actor[a].copy)
        /\ \A f \in Files \ {op.file} : disk'[f] = disk[f]
    BY WriteFacts
  <1>3. NodesOK(disk'["swarm"])
    <2>1. CASE op.file # "swarm"
      BY <1>2, <2>1 DEF Files, StateInv
    <2>2. CASE op.file = "swarm"
      <3>1. actor[a].copy \in [Nodes -> Swarm] /\ op.key \in Nodes /\ NodesOK(actor[a].copy)
            /\ op.do # "init"
        BY <1>1, <1>2, <2>2 DEF Contents, Keys, OpOK, ActorOK, Doings
      <3>2. SameHealth(Updated(op, actor[a].copy[op.key]))
        BY <1>1, <2>2, <3>1, SwarmOK DEF NodesOK
      <3>3. /\ disk'["swarm"][op.key] = Updated(op, actor[a].copy[op.key])
            /\ \A n \in Nodes \ {op.key} : disk'["swarm"][n] = actor[a].copy[n]
        BY <1>1, <1>2, <2>2, <3>1, WrittenOK DEF Keys
      <3> QED BY <3>1, <3>2, <3>3 DEF NodesOK
    <2> QED BY <2>1, <2>2
  <1>4. actor' = [b \in Actors |-> actor'[b]] /\ \A b \in Actors : ActorOK(actor'[b])
    <2>1. /\ actor' = [b \in Actors |-> actor'[b]] /\ actor'[a] = next
          /\ \A b \in Actors \ {a} : actor'[b] = actor[b]
      BY WriteFacts
    <2>2. \A b \in Actors : ActorOK(actor[b])
      BY DEF StateInv
    <2> QED BY <1>1, <2>1, <2>2
  <1>5. made' \in BOOLEAN /\ UNCHANGED <<ops, life>>
        /\ (~made' => disk'["policy"] = Empty("policy"))
    BY <1>2 DEF Saves, StateInv, Files
  <1>6. DOMAIN kept' \subseteq Facts
    BY DEF Saves, Kept
  <1>7. admitted' \subseteq Devices
    BY DEF Saves, StateInv, KeptInv
  <1> QED BY <1>2, <1>3, <1>4, <1>5, <1>6, <1>7 DEF StateInv

\* What is settled after a write: what was, and what it asked for.
LEMMA KeptFacts ==
    ASSUME NEW a, NEW op, kept' = Kept(a, op), NEW x \in DOMAIN kept'
    PROVE  /\ x \in Facts
           /\ ~Asks(op, x) => x \in DOMAIN kept /\ kept'[x] = kept[x]
           /\ Asks(op, x) => Settles(a, op, x) /\ kept'[x] = Asked(op, x)
  BY DEF Kept

LEMMA SavesKeepSettled ==
    ASSUME StateInv, KeptInv, NEW a \in Actors, actor[a].pc = "write",
           NEW next, GoesOnOK(actor[a], next), Saves(a, actor[a].op, next)
    PROVE  KeptInv'
  <1> DEFINE op == actor[a].op
             c == actor[a].copy
  <1>1. /\ OpOK(op) /\ c \in Contents(op.file) /\ (op.do = "init" => c = Empty("policy"))
        /\ disk'[op.file] = Written(op, c) /\ op.file \in Files
        /\ \A f \in Files \ {op.file} : disk'[f] = disk[f]
        /\ actor'[a] = next /\ \A b \in Actors \ {a} : actor'[b] = actor[b]
    BY WriteFacts DEF OpOK
  <1>2. Agrees(c, op.file, kept) /\ ~actor[a].after /\ kept' = Kept(a, op)
    BY DEF KeptInv, Saves
  <1> HIDE DEF op, c
  <1>3. Agrees(Written(op, c), op.file, kept')
    <2> SUFFICES ASSUME NEW x \in DOMAIN kept', FileOf(x) = op.file
                 PROVE  Says(Written(op, c), x) = kept'[x]
      BY DEF Agrees
    <2>1. /\ x \in Facts
          /\ ~Asks(op, x) => x \in DOMAIN kept /\ kept'[x] = kept[x]
          /\ Asks(op, x) => Settles(a, op, x) /\ kept'[x] = Asked(op, x)
      BY <1>2, KeptFacts
    <2>2. x \in DOMAIN kept => Says(c, x) = kept[x]
      BY <1>2 DEF Agrees
    <2>3. CASE ~Asks(op, x)
      BY <1>1, <2>1, <2>2, <2>3, WrittenSays
    <2>4. CASE Asks(op, x)
      <3>1. op.do = "health" /\ op.arg = 0 => kept[x] = Says(c, x)
        BY <2>1, <2>2, <2>4 DEF Settles
      <3> QED BY <1>1, <2>1, <2>4, <3>1, WrittenSays
    <2> QED BY <2>3, <2>4
  <1>4. ASSUME NEW f, f # op.file, NEW d, Agrees(d, f, kept)
        PROVE  Agrees(d, f, kept')
    <2> SUFFICES ASSUME NEW x \in DOMAIN kept', FileOf(x) = f
                 PROVE  Says(d, x) = kept'[x]
      BY DEF Agrees
    <2>1. ~Asks(op, x)
      BY <1>4 DEF Asks
    <2> QED BY <1>2, <1>4, <2>1, KeptFacts DEF Agrees
  <1>5. \A f \in Files : Agrees(disk'[f], f, kept')
    BY <1>1, <1>3, <1>4 DEF KeptInv
  <1>6. ASSUME NEW b \in Actors, actor'[b].pc = "write"
        PROVE  Agrees(actor'[b].copy, actor'[b].op.file, kept') /\ ~actor'[b].after
    <2>1. CASE b = a
      BY <1>1, <1>2, <1>3, <1>6, <2>1, IdleOK DEF GoesOnOK, op, c
    <2>2. CASE b # a
      <3>1. actor'[b] = actor[b] /\ Agrees(actor[b].copy, actor[b].op.file, kept) /\ ~actor[b].after
        BY <1>1, <1>6, <2>2 DEF KeptInv
      <3>2. CASE actor[b].op.file # op.file
        BY <1>4, <3>1, <3>2
      <3>3. CASE actor[b].op.file = op.file
        <4>1. ~Alone(a, op.file)
          BY <1>6, <2>2, <3>1, <3>3 DEF Alone
        <4>2. \A x \in DOMAIN kept' : x \in DOMAIN kept /\ kept'[x] = kept[x]
          BY <1>2, <4>1, KeptFacts DEF Settles
        <4> QED BY <3>1, <4>2 DEF Agrees
      <3> QED BY <3>2, <3>3
    <2> QED BY <2>1, <2>2
  <1>7. admitted' = {}
    BY <1>2 DEF Saves, KeptInv
  <1> QED BY <1>5, <1>6, <1>7 DEF KeptInv

\* What the two actions that write go on with.
LEMMA SaveStep ==
    ASSUME StateInv, NEW a \in Actors, Save(a) \/ SaveAndProbeNext(a)
    PROVE  \E next : actor[a].pc = "write" /\ GoesOnOK(actor[a], next) /\ Saves(a, actor[a].op, next)
  <1>1. actor[a].pc = "write"
    BY DEF Save, SaveAndProbeNext
  <1>2. CASE Save(a)
    BY <1>1, <1>2 DEF Save, GoesOnOK
  <1>3. CASE SaveAndProbeNext(a)
    <2> DEFINE x == actor[a]
    <2>1. PICK t \in x.todo, do \in {"online", "offline", "unknown"} :
              Saves(a, x.op, [x EXCEPT !.op = Op("swarm", do, t[1], {}, 0), !.todo = @ \ {t},
                                       !.copy = Written(x.op, @)])
      BY <1>3 DEF SaveAndProbeNext, Answers
    <2> DEFINE op == Op("swarm", do, t[1], {}, 0)
               w == Written(x.op, x.copy)
               next == [x EXCEPT !.op = op, !.todo = @ \ {t}, !.copy = w]
    <2>2. ActorOK(x) /\ x.op.file = "swarm" /\ t \in Nodes \X BOOLEAN
      BY DEF StateInv, ActorOK
    <2>3. OpOK(op) /\ op.file = "swarm" /\ op.do = do /\ op.file \in Files
      BY <2>2 DEF OpOK, Op, Files, Keys, Doings
    <2>4. w \in Contents("swarm") /\ NodesOK(w)
      <3>1. OpOK(x.op) /\ x.copy \in Contents("swarm") /\ NodesOK(x.copy)
        BY <1>1, <2>2 DEF ActorOK
      <3>2. x.op.do # "init" /\ x.op.key \in Nodes /\ x.copy \in [Nodes -> Swarm]
        BY <2>2, <3>1 DEF OpOK, Doings, Keys, Contents
      <3>3. SameHealth(Updated(x.op, x.copy[x.op.key]))
        BY <2>2, <3>1, <3>2, SwarmOK DEF NodesOK
      <3> QED BY <2>2, <3>1, <3>2, <3>3, WrittenOK DEF NodesOK, Keys
    <2> HIDE DEF op, w
    <2>5. x \in [pc : {"write"}, op : {op, x.op}, copy : {w, x.copy},
                 after : {x.after}, todo : {x.todo, x.todo \ {t}}]
      BY <1>1, <2>2 DEF ActorOK
    <2>6. /\ next \in [pc : {"write"}, op : {op, x.op}, copy : {w, x.copy},
                       after : {x.after}, todo : {x.todo, x.todo \ {t}}]
          /\ next.op = op /\ next.copy = w /\ next.todo = x.todo \ {t}
      BY <2>5
    <2>7. Saves(a, x.op, next)
      BY <2>1 DEF op, w
    <2> HIDE DEF next
    <2>8. ActorOK(next)
      BY <2>2, <2>3, <2>4, <2>6 DEF ActorOK
    <2>9. GoesOnOK(x, next)
      BY <2>2, <2>3, <2>6, <2>8 DEF GoesOnOK, w
    <2> QED BY <1>1, <2>7, <2>9
  <1> QED BY <1>2, <1>3

LEMMA SaveKeeps ==
    ASSUME StateInv, KeptInv, NEW a \in Actors, Save(a) \/ SaveAndProbeNext(a)
    PROVE  StateInv' /\ KeptInv'
  BY SaveStep, SavesKeepState, SavesKeepSettled

-----------------------------------------------------------------------------
(* The theorems.                                                           *)

LEMMA InitHolds == Init => StateInv /\ KeptInv
  <1> SUFFICES ASSUME Init PROVE StateInv /\ KeptInv
    OBVIOUS
  <1>1. PICK b \in Beginnings : disk = b.disk /\ made = b.made /\ life = b.life
    BY DEF Init
  <1>2. /\ FilesOK(disk) /\ NodesOK(disk["swarm"]) /\ made \in BOOLEAN /\ LifeOK(life)
        /\ ~made => disk["policy"] = Empty("policy")
    BY <1>1, BeginningsAssumption DEF FilesOK, NodesOK, LifeOK
  <1>3. StateInv
    BY <1>2, IdleOK, StateFilesAssumption DEF Init, StateInv
  <1>4. \A f \in Files : Agrees(disk[f], f, kept)
    BY DEF Init, Agrees
  <1> QED BY <1>3, <1>4, IdleOK DEF Init, KeptInv

LEMMA StepKeeps == StateInv /\ KeptInv /\ [Next]_vars => StateInv' /\ KeptInv'
  <1> SUFFICES ASSUME StateInv, KeptInv, [Next]_vars
               PROVE  StateInv' /\ KeptInv'
    OBVIOUS
  <1>1. ASSUME NEW a \in Actors, NEW n \in Nodes,
               \/ ChangeWhitelist(a, n) \/ ChangeRoutes(a, n)
               \/ PickRoute(a, n) \/ ProbeNode(a, n)
        PROVE  StateInv' /\ KeptInv'
    BY <1>1, ChangeSwarmKeeps, PickRouteKeeps
  <1>2. ASSUME NEW a \in Actors,
               ProbeAllNodes(a) \/ SaveAndProbeNext(a) \/ ReadForHealth(a) \/ Save(a)
        PROVE  StateInv' /\ KeptInv'
    BY <1>2, ProbeAllNodesKeeps, ReadForHealthKeeps, SaveKeeps
  <1>3. ASSUME NEW a \in Actors, NEW d \in Devices, Pair(a, d) \/ UseDevice(a, d)
        PROVE  StateInv' /\ KeptInv'
    BY <1>3, BeginLifeKeeps, ChangeOtherKeeps
  <1>4. ASSUME NEW a \in Actors, NEW p \in Processes,
               Register(a, p) \/ Heartbeat(a, p) \/ ForgetProcess(a, p)
        PROVE  StateInv' /\ KeptInv'
    BY <1>4, BeginLifeKeeps, ChangeOtherKeeps
  <1>5. ASSUME NEW a \in Actors,
               (\E r \in Rules : ChangePolicy(a, r)) \/ (\E n \in Aliases : ChangeConnection(a, n))
        PROVE  StateInv' /\ KeptInv'
    BY <1>5, ChangeOtherKeeps
  <1>6. ASSUME NEW x \in Devices \cup Processes, Ends(x)
        PROVE  StateInv' /\ KeptInv'
    BY <1>6, EndsKeeps
  <1>7. CASE UNCHANGED vars
    <2>1. StateInv'
      BY <1>7 DEF vars, StateInv
    <2> QED BY <1>7, <2>1 DEF vars, KeptInv
  <1> QED BY <1>1, <1>2, <1>3, <1>4, <1>5, <1>6, <1>7 DEF Next

LEMMA Always == Spec => [](StateInv /\ KeptInv)
  BY InitHolds, StepKeeps, PTL DEF Spec

\* Each file always holds a whole content of its type, and so does every copy an
\* actor is about to write.
THEOREM TypeInvariant == Spec => []TypeOK
  BY Always, StateGivesType, PTL

LEMMA SettledInTheFile == StateInv /\ KeptInv => \A x \in DOMAIN kept : Says(disk[FileOf(x)], x) = kept[x]
  BY FactOK DEF StateInv, KeptInv, Agrees

\* Whatever commands, handlers and daemons change at the same time: what set_whitelist,
\* set_route, set_connection, forget_process and the others have made of an entry stays,
\* unless another had read the file before they wrote it.
THEOREM ChangesTheorem == Spec => []ChangesStand
  <1>1. StateInv /\ KeptInv => ChangesStand
    BY SettledInTheFile DEF ChangesStand
  <1> QED BY <1>1, Always, PTL

\* verify_mobile_token lets nobody in whose pairing it is settled that
\* revoke_mobile_device has revoked.
THEOREM RevocationTheorem == Spec => []RevokedStaysOut
  <1>1. KeptInv => RevokedStaysOut
    BY DEF KeptInv, RevokedStaysOut
  <1> QED BY <1>1, Always, PTL

\* save_route_health counts exactly the failures since the last good probe.
THEOREM FailuresTheorem == Spec => []FailuresAreConsecutive
  <1>1. StateInv /\ KeptInv => FailuresAreConsecutive
    BY SettledInTheFile DEF FailuresAreConsecutive
  <1> QED BY <1>1, Always, PTL

-----------------------------------------------------------------------------
(* The route shown as selected and the one that is used.                   *)

LEMMA LeastNatural ==
    ASSUME NEW E \in SUBSET Nat, E # {}
    PROVE  Least(E) \in E /\ \A y \in E : Least(E) <= y
  <1> DEFINE R == OpToRel(<, Nat)
  <1>1. \A x, y \in Nat : y < x => <<y, x>> \in R
    <2> SUFFICES ASSUME NEW x \in Nat, NEW y \in Nat, y < x PROVE <<y, x>> \in R
      OBVIOUS
    <2>1. <<y, x>> \in Nat \X Nat /\ <<y, x>>[1] = y /\ <<y, x>>[2] = x
      OBVIOUS
    <2> QED BY <2>1, Zenon DEF OpToRel
  <1>2. IsWellFoundedOn(R, Nat)
    BY NatLessThanWellFounded
  <1> HIDE DEF R
  <1>3. PICK x \in E : \A y \in E : ~(<<y, x>> \in R)
    BY <1>2, WFMin
  <1>4. ASSUME NEW y \in E
        PROVE  x <= y
    <2>1. x \in Nat /\ y \in Nat /\ ~(<<y, x>> \in R)
      BY <1>3
    <2>2. ~(y < x)
      BY <1>1, <2>1, Zenon
    <2> QED BY <2>1, <2>2
  <1> QED BY <1>3, <1>4 DEF Least

\* An element with the fewest below it has none.
LEMMA LeastInteger ==
    ASSUME NEW E \in SUBSET Int, E # {}, IsFiniteSet(E)
    PROVE  Least(E) \in E /\ \A y \in E : Least(E) <= y
  <1> DEFINE Below(x) == {z \in E : z < x}
             N == {Cardinality(Below(x)) : x \in E}
  <1>1. \A x \in E : IsFiniteSet(Below(x)) /\ Cardinality(Below(x)) \in Nat
    <2> SUFFICES ASSUME NEW x \in E
                 PROVE  IsFiniteSet(Below(x)) /\ Cardinality(Below(x)) \in Nat
      OBVIOUS
    <2>1. Below(x) \in SUBSET E
      OBVIOUS
    <2> HIDE DEF Below
    <2> QED BY <2>1, FS_Subset, FS_CardinalityType
  <1>2. N \in SUBSET Nat /\ N # {}
    BY <1>1
  <1>3. Least(N) \in N /\ \A m \in N : Least(N) <= m
    BY <1>2, LeastNatural
  <1>4. PICK x \in E : Cardinality(Below(x)) = Least(N)
    BY <1>3
  <1>5. ASSUME NEW y \in E
        PROVE  x <= y
    <2>1. CASE y < x
      <3>0. x \in Int /\ y \in Int /\ \A z \in E : z \in Int
        OBVIOUS
      <3>1. Below(y) \in SUBSET Below(x) /\ y \in Below(x) /\ y \notin Below(y)
        <4>1. \A z \in E : z < y => z < x
          BY <2>1, <3>0
        <4>2. ~(y < y)
          BY <3>0
        <4> QED BY <2>1, <4>1, <4>2
      <3>2. Cardinality(Below(x)) <= Cardinality(Below(y))
        BY <1>3, <1>4
      <3> HIDE DEF Below, N
      <3>3. Cardinality(Below(y)) = Cardinality(Below(x))
        BY <1>1, <3>1, <3>2, FS_Subset
      <3>4. Below(x) = Below(y)
        BY <1>1, <3>1, <3>3, FS_Subset
      <3> QED BY <3>1, <3>4
    <2> QED BY <2>1
  <1> HIDE DEF Below, N
  <1> QED BY <1>5 DEF Least

Rows(rows) ==
    /\ DOMAIN rows \in SUBSET Endpoints /\ DOMAIN rows # {}
    /\ \A e \in DOMAIN rows : rows[e].priority \in Int /\ rows[e].health.latency \in Nat

\* Row b comes before e: by priority, then by health and latency, then by order.
Before(rows, b, e) ==
    /\ rows[b].priority <= rows[e].priority
    /\ rows[b].priority = rows[e].priority =>
          IF rows[e].health.latency = 0 THEN rows[b].health.latency # 0 \/ b <= e
          ELSE /\ rows[b].health.latency # 0
               /\ \/ rows[b].health.latency < rows[e].health.latency
                  \/ rows[b].health.latency = rows[e].health.latency /\ b <= e

IsBest(rows, b) == b \in DOMAIN rows /\ \A e \in DOMAIN rows : Before(rows, b, e)

LEMMA BestIsBest ==
    ASSUME NEW rows, Rows(rows)
    PROVE  IsBest(rows, Best(rows))
  <1> DEFINE P == {rows[e].priority : e \in DOMAIN rows}
             C == {e \in DOMAIN rows : rows[e].priority = Least(P)}
             H == {e \in C : rows[e].health.latency # 0}
             F == {e \in H : \A x \in H : rows[e].health.latency <= rows[x].health.latency}
             L == {rows[e].health.latency : e \in H}
             b == Best(rows)
  <1>1. DOMAIN rows \in SUBSET Endpoints /\ DOMAIN rows \in SUBSET Nat /\ DOMAIN rows # {}
    BY StateFilesAssumption DEF Rows
  <1>2. P \in SUBSET Int /\ P # {} /\ IsFiniteSet(P)
    <2>1. P \in SUBSET Int /\ P # {}
      BY DEF Rows
    <2>2. IsFiniteSet(DOMAIN rows)
      BY <1>1, FS_Subset, StateFilesAssumption
    <2> DEFINE f == [e \in DOMAIN rows |-> rows[e].priority]
    <2>3. f \in Surjection(DOMAIN rows, P)
      BY DEF Surjection
    <2> HIDE DEF P, f
    <2> QED BY <2>1, <2>2, <2>3, FS_Surjection
  <1>3. Least(P) \in P /\ \A y \in P : Least(P) <= y
    <2> HIDE DEF P
    <2> QED BY <1>2, LeastInteger
  <1>4. C # {} /\ C \in SUBSET Nat /\ H \in SUBSET Nat /\ F \in SUBSET Nat
    BY <1>1, <1>3
  <1>5. b = IF H # {} THEN Least(F) ELSE Least(C)
    BY <1>1 DEF Best
  <1>6. \A e \in DOMAIN rows : /\ Least(P) <= rows[e].priority /\ rows[e].priority \in Int
                               /\ rows[e].priority = Least(P) <=> e \in C
    BY <1>3 DEF Rows
  <1>7. CASE H = {}
    <2>1. b \in C /\ \A e \in C : b <= e
      BY <1>4, <1>5, <1>7, LeastNatural
    <2>2. \A e \in C : rows[e].health.latency = 0
      BY <1>7
    <2>3. b \in DOMAIN rows /\ rows[b].priority = Least(P)
      BY <2>1
    <2> HIDE DEF b, P, C, H, F
    <2>4. ASSUME NEW e \in DOMAIN rows
          PROVE  Before(rows, b, e)
      <3>1. /\ Least(P) <= rows[e].priority /\ rows[e].priority \in Int
            /\ rows[e].priority = Least(P) => e \in C
        BY <1>6
      <3> QED BY <2>1, <2>2, <2>3, <3>1 DEF Before
    <2> QED BY <2>3, <2>4 DEF IsBest, b
  <1>8. CASE H # {}
    <2>1. L \in SUBSET Nat /\ L # {}
      BY <1>8 DEF Rows
    <2>2. Least(L) \in L /\ \A l \in L : Least(L) <= l
      <3> HIDE DEF L
      <3> QED BY <2>1, LeastNatural
    <2>3. F # {}
      <3>1. PICK e \in H : rows[e].health.latency = Least(L)
        BY <2>2
      <3>2. \A x \in H : rows[x].health.latency \in L
        OBVIOUS
      <3> HIDE DEF L
      <3>3. e \in F
        BY <2>2, <3>1, <3>2
      <3> QED BY <3>3
    <2>4. b \in F /\ \A e \in F : b <= e
      BY <1>4, <1>5, <1>8, <2>3, LeastNatural
    <2>5. /\ b \in DOMAIN rows /\ rows[b].priority = Least(P) /\ rows[b].health.latency # 0
          /\ \A e \in C : rows[e].health.latency # 0 =>
                rows[b].health.latency <= rows[e].health.latency
      BY <2>4
    <2>6. \A e \in C : rows[e].health.latency # 0 /\ rows[e].health.latency = rows[b].health.latency
                          => e \in F
      BY <2>4
    <2>7. \A e \in DOMAIN rows : rows[e].health.latency \in Nat
      BY DEF Rows
    <2> HIDE DEF b, P, C, H, F, L
    <2>8. ASSUME NEW e \in DOMAIN rows
          PROVE  Before(rows, b, e)
      <3>1. /\ Least(P) <= rows[e].priority /\ rows[e].priority \in Int
            /\ rows[e].priority = Least(P) => e \in C
        BY <1>6
      <3>2. rows[b].health.latency \in Nat /\ rows[e].health.latency \in Nat
        BY <2>5, <2>7
      <3>3. e \in C /\ rows[e].health.latency # 0 =>
              \/ rows[b].health.latency < rows[e].health.latency
              \/ rows[b].health.latency = rows[e].health.latency /\ b <= e
        BY <2>4, <2>5, <2>6, <3>2
      <3> QED BY <2>5, <3>1, <3>3 DEF Before
    <2> QED BY <2>5, <2>8 DEF IsBest, b
  <1> QED BY <1>7, <1>8

LEMMA BestIsOne ==
    ASSUME NEW rows, Rows(rows), NEW b, NEW c, IsBest(rows, b), IsBest(rows, c)
    PROVE  b = c
  <1>1. b \in Nat /\ c \in Nat
    BY StateFilesAssumption DEF Rows, IsBest
  <1>2. Before(rows, b, c) /\ Before(rows, c, b)
    BY DEF IsBest
  <1>3. /\ rows[b].priority \in Int /\ rows[c].priority \in Int
        /\ rows[b].health.latency \in Nat /\ rows[c].health.latency \in Nat
    BY DEF Rows, IsBest
  <1> QED BY <1>1, <1>2, <1>3 DEF Before

\* The best of some rows that is among fewer of them is the best of those, if the
\* health of those of its priority is the same.
LEMMA BestOfFewer ==
    ASSUME NEW shown, NEW used, Rows(shown), Rows(used), DOMAIN used \subseteq DOMAIN shown,
           \A e \in DOMAIN used : shown[e].priority = used[e].priority,
           Best(shown) \in DOMAIN used
    PROVE  /\ used[Best(used)].priority = used[Best(shown)].priority
           /\ (\A e \in DOMAIN used : used[e].priority = used[Best(used)].priority
                                         => shown[e].health = used[e].health)
                => Best(shown) = Best(used)
  <1> DEFINE s == Best(shown)
             u == Best(used)
  <1>1. IsBest(shown, s) /\ IsBest(used, u)
    BY BestIsBest
  <1> HIDE DEF s, u
  <1>2. s \in DOMAIN used /\ u \in DOMAIN used
    BY <1>1 DEF s, IsBest
  <1>3. used[u].priority = used[s].priority
    <2>1. /\ used[u].priority <= used[s].priority /\ shown[s].priority <= shown[u].priority
          /\ used[u].priority \in Int /\ used[s].priority \in Int
      BY <1>1, <1>2 DEF IsBest, Before, Rows
    <2> QED BY <1>2, <2>1
  <1>4. ASSUME \A e \in DOMAIN used : used[e].priority = used[u].priority
                                         => shown[e].health = used[e].health
        PROVE  s = u
    <2>1. ASSUME NEW e \in DOMAIN used
          PROVE  Before(used, s, e)
      <3>1. Before(shown, s, e) /\ shown[e].priority = used[e].priority
            /\ shown[s].priority = used[s].priority
        BY <1>1, <1>2 DEF IsBest
      <3>2. shown[s].health = used[s].health
        BY <1>2, <1>3, <1>4
      <3>3. used[e].priority = used[s].priority => shown[e].health = used[e].health
        BY <1>3, <1>4
      <3> QED BY <3>1, <3>2, <3>3 DEF Before
    <2> QED BY <1>1, <1>2, <2>1, BestIsOne DEF IsBest
  <1> QED BY <1>3, <1>4 DEF s, u

LEMMA ShownOrUsed ==
    ASSUME NEW node \in Swarm, SameHealth(node), NEW saved \in Endpoints \cup {Nothing}
    PROVE  LET shown == Shown(node, saved)
               used == Used(node, saved)
           IN \/ shown = used
              \/ /\ {shown, used} \subseteq Routed(node)
                 /\ node.routes[shown].priority = node.routes[used].priority
                 /\ \E e \in Routed(node) : /\ node.routes[e].again
                                            /\ node.routes[e].priority = node.routes[used].priority
              \/ /\ shown = saved
                 /\ \A e \in Routed(node) : node.routes[e].priority >= SavedPriority
  <1> DEFINE D == Routed(node) \cup ({saved} \ {Nothing})
             shown == [e \in D |->
                 [priority |-> IF e \in Routed(node) THEN node.routes[e].priority ELSE SavedPriority,
                  health |-> node.health[e]]]
             used == [e \in Routed(node) |-> node.routes[e]]
  <1>1. Shown(node, saved) = Best(shown)
    BY DEF Shown
  <1>2. /\ Routed(node) \subseteq Endpoints /\ D \subseteq Endpoints
        /\ \A e \in Routed(node) : /\ node.routes[e].priority \in Int
                                   /\ node.routes[e].health.latency \in Nat
                                   /\ ~node.routes[e].again => node.routes[e].health = node.health[e]
        /\ \A e \in Endpoints : node.health[e].latency \in Nat
    <2>1. Routed(node) \subseteq Endpoints /\ D \subseteq Endpoints
      BY DEF Routed
    <2>2. \A h \in Health : h.latency \in Nat
      BY DEF Health, Latencies
    <2>3. \A e \in Endpoints : node.routes[e] \in Row /\ node.health[e] \in Health
      BY DEF Swarm
    <2>4. ASSUME NEW e \in Routed(node)
          PROVE  /\ node.routes[e].priority \in Int /\ node.routes[e].health.latency \in Nat
                 /\ ~node.routes[e].again => node.routes[e].health = node.health[e]
      <3>1. node.routes[e] \in Row /\ node.routes[e].priority # Nothing /\ e \in Endpoints
        BY <2>3 DEF Routed
      <3>2. node.routes[e].priority \in Int /\ node.routes[e].health \in Health
        BY <3>1, StateFilesAssumption DEF Row
      <3> QED BY <2>2, <3>1, <3>2 DEF SameHealth
    <2> HIDE DEF D
    <2> QED BY <2>1, <2>2, <2>3, <2>4
  <1>3. DOMAIN shown = D /\ DOMAIN used = Routed(node) /\ Routed(node) \subseteq D
    OBVIOUS
  <1>a. \A e \in D : shown[e].health = node.health[e]
    OBVIOUS
  <1>b. \A e \in Routed(node) : shown[e].priority = node.routes[e].priority
    OBVIOUS
  <1>c. \A e \in D \ Routed(node) : shown[e].priority = SavedPriority /\ e = saved
    OBVIOUS
  <1>d. \A e \in Routed(node) : used[e] = node.routes[e]
    OBVIOUS
  <1>4. D # {} => Rows(shown)
    <2>1. ASSUME NEW e \in D
          PROVE  shown[e].priority \in Int /\ shown[e].health.latency \in Nat
      <3>1. shown[e].health = node.health[e] /\ e \in Endpoints
        BY <1>2
      <3>2. e \in Routed(node) => shown[e].priority = node.routes[e].priority
        OBVIOUS
      <3>3. e \notin Routed(node) => shown[e].priority = SavedPriority
        OBVIOUS
      <3> HIDE DEF shown, D
      <3> QED BY <1>2, <3>1, <3>2, <3>3 DEF SavedPriority
    <2> HIDE DEF shown, D
    <2> QED BY <1>2, <1>3, <2>1 DEF Rows
  <1>5. CASE Routed(node) = {}
    <2>1. Used(node, saved) = saved
      BY <1>5 DEF Used
    <2>2. CASE saved = Nothing
      <3>1. DOMAIN shown = {}
        BY <1>5, <2>2
      <3>2. Best(shown) = Nothing
        BY <3>1 DEF Best
      <3> QED BY <1>1, <2>1, <2>2, <3>2
    <2>3. CASE saved # Nothing
      <3>1. D = {saved}
        BY <1>5, <2>3
      <3>2. IsBest(shown, Best(shown))
        BY <1>4, <3>1, BestIsBest
      <3>3. Best(shown) = saved
        <4> HIDE DEF shown, D
        <4> QED BY <1>3, <3>1, <3>2 DEF IsBest
      <3> QED BY <1>1, <2>1, <3>3
    <2> QED BY <2>2, <2>3
  <1>6. CASE Routed(node) # {}
    <2>1. Used(node, saved) = Best(used)
      BY <1>6 DEF Used
    <2>2. Rows(shown) /\ Rows(used)
      <3>1. D # {}
        BY <1>6
      <3>2. Rows(used)
        <4> HIDE DEF used
        <4> QED BY <1>2, <1>3, <1>6, <1>d DEF Rows
      <3> QED BY <1>4, <3>1, <3>2
    <2>3. IsBest(shown, Best(shown)) /\ IsBest(used, Best(used))
      BY <2>2, BestIsBest
    <2> DEFINE s == Best(shown)
               u == Best(used)
    <2> HIDE DEF shown, used, D, s, u
    <2>4. s \in D /\ u \in Routed(node)
      BY <1>3, <2>3 DEF IsBest, s, u
    <2>5. CASE s \in Routed(node)
      <3>1. \A e \in DOMAIN used : shown[e].priority = used[e].priority
        BY <1>3, <1>b, <1>d
      <3>2. /\ used[u].priority = used[s].priority
            /\ (\A e \in DOMAIN used : used[e].priority = used[u].priority
                                          => shown[e].health = used[e].health) => s = u
        BY <1>3, <2>2, <2>5, <3>1, BestOfFewer DEF s, u
      <3>3. node.routes[u].priority = node.routes[s].priority
        BY <1>d, <2>4, <2>5, <3>2
      <3>4. CASE \E e \in Routed(node) : /\ node.routes[e].again
                                         /\ node.routes[e].priority = node.routes[u].priority
        BY <1>1, <2>1, <2>4, <2>5, <3>3, <3>4 DEF s, u
      <3>5. CASE ~ \E e \in Routed(node) : /\ node.routes[e].again
                                           /\ node.routes[e].priority = node.routes[u].priority
        <4>1. \A e \in DOMAIN used : used[e].priority = used[u].priority
                                        => shown[e].health = used[e].health
          BY <1>2, <1>3, <1>a, <1>d, <2>4, <3>5
        <4> QED BY <1>1, <2>1, <3>2, <4>1 DEF s, u
      <3> QED BY <3>4, <3>5
    <2>6. CASE s \notin Routed(node)
      <3>1. s = saved /\ shown[s].priority = SavedPriority
        BY <1>c, <2>4, <2>6
      <3>2. ASSUME NEW e \in Routed(node)
            PROVE  node.routes[e].priority >= SavedPriority
        <4>1. shown[s].priority <= shown[e].priority
          BY <1>3, <2>3 DEF IsBest, Before, s
        <4> QED BY <1>2, <1>b, <3>1, <4>1 DEF SavedPriority
      <3> QED BY <1>1, <3>1, <3>2 DEF s
    <2> QED BY <2>5, <2>6
  <1> QED BY <1>5, <1>6

\* For an alias merged_route_rows with select_best_route, which the tools show, and
\* resolve_target, which connects, agree but for a row set again since its probe and
\* rows behind a saved connection.
THEOREM SelectionTheorem == Spec => []ShownRouteIsUsed
  <1>1. StateInv => ShownRouteIsUsed
    <2>1. ASSUME StateInv, NEW n \in Aliases
          PROVE  /\ disk["swarm"][n] \in Swarm /\ SameHealth(disk["swarm"][n])
                 /\ SavedOf(n) \in Endpoints \cup {Nothing}
      BY <2>1, StateFilesAssumption DEF StateInv, FilesOK, Files, Contents, NodesOK, SavedOf
    <2> QED BY <2>1, ShownOrUsed DEF ShownRouteIsUsed
  <1> QED BY <1>1, Always, PTL

-----------------------------------------------------------------------------
(* Every step is a step of SnapshotStore.                                  *)

View(x) == IF x.pc = "write" THEN [file |-> x.op.file, read |-> x.copy] ELSE Nothing

\* An actor without a copy, or with that of a file as it is.
LEMMA QuietRefines ==
    ASSUME StateInv, NEW a \in Actors, NEW x, actor' = [actor EXCEPT ![a] = x],
           UNCHANGED disk, x.pc = "write" => x.op.file \in Files /\ x.copy = disk[x.op.file]
    PROVE  S!Next
  <1> DEFINE V == [b \in Actors |-> View(actor[b])]
  <1>1. actor' = [b \in Actors |-> IF b = a THEN x ELSE actor[b]]
    BY DEF StateInv
  <1>2. V' = [V EXCEPT ![a] = View(x)]
    BY <1>1 DEF View
  <1>3. CASE x.pc = "write"
    <2>1. S!Read(a, x.op.file)
      BY <1>2, <1>3 DEF S!Read, View
    <2> QED BY <1>3, <2>1 DEF S!Next
  <1>4. CASE x.pc # "write"
    <2>1. S!Forget(a)
      BY <1>2, <1>4 DEF S!Forget, View
    <2> QED BY <2>1 DEF S!Next
  <1> QED BY <1>3, <1>4

\* The operations that read a file.
Reading(a, op, todo) == op.file \in Files /\ Reads(a, op, todo)

LEMMA LoadReads ==
    ASSUME NEW a \in Actors, NEW op, op.file \in Files, Load(a, op)
    PROVE  \E o, t : Reading(a, o, t)
  <1>1. Reading(a, op, {})
    BY DEF Load, Reading
  <1> QED BY <1>1

LEMMA ReadersRead ==
    ASSUME StateInv, NEW a \in Actors,
           \/ \E n \in Nodes : ChangeWhitelist(a, n) \/ ChangeRoutes(a, n) \/ ProbeNode(a, n)
           \/ \E n \in Aliases : ChangeConnection(a, n)
           \/ ProbeAllNodes(a) \/ ReadForHealth(a)
           \/ \E d \in Devices : Pair(a, d) \/ UseDevice(a, d)
           \/ \E p \in Processes : Register(a, p) \/ Heartbeat(a, p) \/ ForgetProcess(a, p)
           \/ \E r \in Rules : ChangePolicy(a, r)
    PROVE  \E o, t : Reading(a, o, t)
  <1> USE LoadReads
  <1>0. \A f \in Files : \A do, key, at, arg : Op(f, do, key, at, arg).file \in Files
    BY DEF Op
  <1>f. /\ "swarm" \in Files /\ "connections" \in Files /\ "devices" \in Files
        /\ "processes" \in Files /\ "policy" \in Files
    BY DEF Files
  <1>1. CASE \E n \in Nodes : ChangeWhitelist(a, n)
    BY <1>0, <1>f, <1>1 DEF ChangeWhitelist
  <1>2. CASE \E n \in Nodes : ChangeRoutes(a, n)
    BY <1>0, <1>f, <1>2 DEF ChangeRoutes
  <1>3. CASE \E n \in Nodes : ProbeNode(a, n)
    BY <1>0, <1>f, <1>3 DEF ProbeNode
  <1>4. CASE \E n \in Aliases : ChangeConnection(a, n)
    BY <1>0, <1>f, <1>4 DEF ChangeConnection
  <1>5. CASE ProbeAllNodes(a)
    <2>1. \E op, todo : op.file \in Files /\ Reads(a, op, todo)
      BY <1>0, <1>f, <1>5 DEF ProbeAllNodes
    <2> QED BY <2>1 DEF Reading
  <1>6. CASE ReadForHealth(a)
    <2>1. actor[a].op.file \in Files
      BY DEF StateInv, ActorOK
    <2>2. Reading(a, actor[a].op, {})
      BY <1>6, <2>1 DEF ReadForHealth, Reading
    <2> QED BY <2>2
  <1>7. CASE \E d \in Devices : Pair(a, d)
    <2>1. PICK d \in Devices : Reading(a, Op("devices", "pair", d, {}, 0), {})
      BY <1>0, <1>f, <1>7 DEF Pair, Starts, Reading
    <2> QED BY <2>1
  <1>8. CASE \E d \in Devices : UseDevice(a, d)
    BY <1>0, <1>f, <1>8 DEF UseDevice
  <1>9. CASE \E p \in Processes : Register(a, p)
    <2>1. PICK p \in Processes : Reading(a, Op("processes", "register", p, {}, 0), {})
      BY <1>0, <1>f, <1>9 DEF Register, Starts, Reading
    <2> QED BY <2>1
  <1>10. CASE \E p \in Processes : Heartbeat(a, p)
    BY <1>0, <1>f, <1>10 DEF Heartbeat
  <1>11. CASE \E p \in Processes : ForgetProcess(a, p)
    BY <1>0, <1>f, <1>11 DEF ForgetProcess
  <1>12. CASE \E r \in Rules : ChangePolicy(a, r)
    BY <1>0, <1>f, <1>12 DEF ChangePolicy
  <1> QED BY <1>1, <1>2, <1>3, <1>4, <1>5, <1>6, <1>7, <1>8, <1>9, <1>10, <1>11, <1>12

LEMMA ReadingRefines ==
    ASSUME StateInv, NEW a \in Actors, NEW op, NEW todo, Reading(a, op, todo)
    PROVE  S!Next
  <1> DEFINE x == [op |-> op, pc |-> "write", copy |-> disk[op.file],
                   after |-> op.do = "verify"
                             /\ IsKept(<<"devices", op.key, "entry", Nothing>>, "revoked"),
                   todo |-> todo]
  <1>1. UNCHANGED disk /\ op.file \in Files
    BY DEF Reading, Reads
  <1>2. CASE actor' = [actor EXCEPT ![a] = x]
    <2>1. x.op.file \in Files /\ x.copy = disk[x.op.file]
      BY <1>1
    <2> HIDE DEF x
    <2> QED BY <1>1, <1>2, <2>1, QuietRefines
  <1>3. CASE actor' = [actor EXCEPT ![a] = Idle]
    BY <1>1, <1>3, IdleOK, QuietRefines
  <1> QED BY <1>2, <1>3 DEF Reading, Reads

LEMMA SavesRefine ==
    ASSUME StateInv, NEW a \in Actors, actor[a].pc = "write",
           NEW next, GoesOnOK(actor[a], next), Saves(a, actor[a].op, next)
    PROVE  S!Next
  <1> DEFINE V == [b \in Actors |-> View(actor[b])]
             op == actor[a].op
             w == Written(op, actor[a].copy)
  <1>1. /\ OpOK(op) /\ op.file \in Files /\ w \in Contents(op.file)
        /\ actor[a].copy \in Contents(op.file) /\ disk'[op.file] = w
        /\ op.do = "init" => actor[a].copy = Empty("policy")
    BY WriteFacts DEF OpOK
  <1>2. disk' = [disk EXCEPT ![op.file] = w]
    BY DEF Saves
  <1>3. V[a] = [file |-> op.file, read |-> actor[a].copy] /\ V[a] # Nothing
    <2>1. [file |-> op.file, read |-> actor[a].copy] # Nothing
      BY <1>1, BeginningsAssumption
    <2> QED BY <2>1 DEF View
  <1>4. V' = [V EXCEPT ![a] = View(next)]
    <2>1. /\ actor'[a] = next
          /\ \A b \in Actors \ {a} : View(actor'[b]) = View(actor[b])
      BY WriteFacts DEF View
    <2> QED BY <2>1
  <1>5. S!DiffersInOneKey(w, actor[a].copy)
    <2>1. actor[a].copy \in [Keys(op.file) -> Values(op.file)] /\ w \in [Keys(op.file) -> Values(op.file)]
      BY <1>1, ContentsAre
    <2>2. CASE op.do = "init"
      <3>1. w = actor[a].copy
        BY <1>1, <2>2, WrittenOK
      <3> QED BY <3>1 DEF S!DiffersInOneKey
    <2>3. CASE op.do # "init"
      <3>1. \A k \in Keys(op.file) \ {op.key} : w[k] = actor[a].copy[k]
        BY <1>1, <2>3, WrittenOK
      <3> QED BY <2>1, <3>1 DEF S!DiffersInOneKey
    <2> QED BY <2>2, <2>3
  <1>6. View(next) \in {Nothing, [file |-> op.file, read |-> w]}
    BY IdleOK DEF GoesOnOK, View
  <1>7. V' \in {[V EXCEPT ![a] = Nothing], [V EXCEPT ![a].read = w]}
    <2>1. [V[a] EXCEPT !.read = w] = [file |-> op.file, read |-> w]
      BY <1>3
    <2> HIDE DEF V
    <2>2. [V EXCEPT ![a].read = w] = [V EXCEPT ![a] = [file |-> op.file, read |-> w]]
      BY <2>1
    <2> QED BY <1>4, <1>6, <2>2
  <1>8. S!Write(a)
    BY <1>1, <1>2, <1>3, <1>5, <1>7 DEF S!Write, View
  <1> QED BY <1>8 DEF S!Next

LEMMA SaveRefines ==
    ASSUME StateInv, NEW a \in Actors, Save(a) \/ SaveAndProbeNext(a)
    PROVE  S!Next
  <1>1. \E next : actor[a].pc = "write" /\ GoesOnOK(actor[a], next) /\ Saves(a, actor[a].op, next)
    BY SaveStep
  <1> QED BY <1>1, SavesRefine

LEMMA StepRefines ==
    ASSUME StateInv, [Next]_vars
    PROVE  [S!Next]_(S!vars)
  <1>1. ASSUME NEW a \in Actors,
           \/ \E n \in Nodes : ChangeWhitelist(a, n) \/ ChangeRoutes(a, n) \/ ProbeNode(a, n)
           \/ \E n \in Aliases : ChangeConnection(a, n)
           \/ ProbeAllNodes(a) \/ ReadForHealth(a)
           \/ \E d \in Devices : Pair(a, d) \/ UseDevice(a, d)
           \/ \E p \in Processes : Register(a, p) \/ Heartbeat(a, p) \/ ForgetProcess(a, p)
           \/ \E r \in Rules : ChangePolicy(a, r)
        PROVE  S!Next
    BY <1>1, ReadersRead, ReadingRefines
  <1>2. ASSUME NEW a \in Actors, Save(a) \/ SaveAndProbeNext(a)
        PROVE  S!Next
    BY <1>2, SaveRefines
  <1>3. ASSUME NEW a \in Actors, NEW n \in Nodes, PickRoute(a, n)
        PROVE  S!Next
    <2>1. PICK x : x.pc = "probe" /\ actor' = [actor EXCEPT ![a] = x]
      BY <1>3, PickRouteStep
    <2>2. UNCHANGED disk
      BY <1>3 DEF PickRoute
    <2> QED BY <2>1, <2>2, QuietRefines
  <1>4. CASE \E x \in Devices \cup Processes : Ends(x)
    BY <1>4 DEF Ends, S!vars
  <1>5. CASE UNCHANGED vars
    BY <1>5 DEF vars, S!vars
  <1> QED BY <1>1, <1>2, <1>3, <1>4, <1>5 DEF Next

\* Whatever the actors do, each file only ever changes by a whole content that its
\* writer has read, with at most one entry changed: atomic_write_json of swarm.py
\* under every function that loads, changes and saves.
THEOREM SnapshotTheorem == Spec => ImplementsSnapshotStore
  <1>1. Init => S!Init
    BY DEF Init, S!Init, Idle
  <1>2. StateInv /\ [Next]_vars => [S!Next]_(S!vars)
    BY StepRefines
  <1> QED BY <1>1, <1>2, Always, PTL DEF Spec, ImplementsSnapshotStore, S!Spec
=============================================================================
