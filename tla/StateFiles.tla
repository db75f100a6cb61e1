------------------------------ MODULE StateFiles ------------------------------
(***************************************************************************)
(* The JSON files that hold the state shared by command lines, dashboards  *)
(* and daemons: the swarm (whitelist, routes, their health, node records), *)
(* the saved connections, the paired mobile devices, the process registry  *)
(* and the worker policy.  Whoever changes one reads all of it and later   *)
(* replaces all of it, atomically (os.replace) and without a lock.         *)
(*                                                                         *)
(* An approval that a command waits for comes before the reading and only  *)
(* delays it; the probe of a node comes between reading and writing.       *)
(***************************************************************************)
EXTENDS Integers, FiniteSets

CONSTANTS Nodes,          \* node names, of the whitelist, the routes and the node records
          Aliases,        \* the names with "::"; the others are hosts
          Endpoints,      \* host and port pairs, in the order sort_routes gives them
          Priorities,     \* of routes that get set, any int
          Devices, Scoped,     \* pairings, and those that have the read scope
          Processes,      \* processes that may register
          Rules,          \* of the worker policy
          Actors,         \* command lines and handlers
          Nothing,        \* no connection, no route, no endpoint
          Beginnings,     \* files and lives that the runs begin with
          Changes,        \* which of the operations happen
          MaxOps          \* bound on the operations begun and lives ended

SavedPriority == 1000
Latencies == 1 .. 2

ASSUME StateFilesAssumption ==
    /\ Aliases \subseteq Nodes
    /\ IsFiniteSet(Endpoints) /\ Endpoints \subseteq Nat
    /\ Priorities \subseteq Int /\ Nothing \notin Endpoints \cup Priorities
    /\ Scoped \subseteq Devices /\ Devices \cap Processes = {}
    /\ MaxOps \in Nat

VARIABLES disk,       \* content of each file, a function from its keys
          made,       \* whether the policy file exists
          actor,
          ops,        \* operations begun and lives ended
          life,       \* of each pairing (until it expires) and each process
          kept,       \* history: settled facts, each with what was last asked of it
          admitted    \* history: devices let in by a request made when it was settled
                      \* that they are revoked

vars == <<disk, made, actor, ops, life, kept, admitted>>

-----------------------------------------------------------------------------
(* The contents.                                                           *)

\* fails counts failed probes in a row; latency 0 is no good probe.
Health == [latency : {0} \cup Latencies, fails : Nat]
NoHealth == [latency |-> 0, fails |-> 0]

\* The health of a route is kept twice, in its row and in routeHealth; again: the
\* row was set again since (history).
Row == [health : Health, priority : {Nothing} \cup Priorities, again : BOOLEAN]
NoRow == [health |-> NoHealth, priority |-> Nothing, again |-> FALSE]

Swarm == [policy : {"unlisted", "allowed", "denied"}, routes : [Endpoints -> Row],
          health : [Endpoints -> Health], status : {"none", "unknown", "online", "offline"}]
UnknownNode == [health |-> [e \in Endpoints |-> NoHealth], policy |-> "unlisted",
                status |-> "none", routes |-> [e \in Endpoints |-> NoRow]]

Files == {"swarm", "connections", "devices", "processes", "policy"}

Contents(f) ==
    CASE f = "swarm" -> [Nodes -> Swarm]
      [] f = "connections" -> [Aliases -> Endpoints \cup {Nothing}]
      [] f = "devices" -> [Devices -> {"none", "paired", "seen", "revoked"}]
      [] f = "processes" -> [Processes -> {"none", "listed"}]
      [] f = "policy" -> [Rules -> {"none", "rule"}]

Empty(f) ==
    CASE f = "swarm" -> [n \in Nodes |-> UnknownNode]
      [] f = "connections" -> [n \in Aliases |-> Nothing]
      [] f = "devices" -> [d \in Devices |-> "none"]
      [] f = "processes" -> [p \in Processes |-> "none"]
      [] f = "policy" -> [r \in Rules |-> "none"]

-----------------------------------------------------------------------------
(* Routes.  A row here is any record with a priority and a health; rows    *)
(* are a function from some endpoints.                                     *)

Least(S) == CHOOSE x \in S : \A y \in S : x <= y

\* Only routes of the best priority are candidates, a good one before others.
Best(rows) ==
    LET top == Least({rows[e].priority : e \in DOMAIN rows})
        candidates == {e \in DOMAIN rows : rows[e].priority = top}
        healthy == {e \in candidates : rows[e].health.latency # 0}
        fastest == {e \in healthy : \A x \in healthy :
                        rows[e].health.latency <= rows[x].health.latency}
    IN IF DOMAIN rows = {} THEN Nothing
       ELSE IF healthy # {} THEN Least(fastest) ELSE Least(candidates)

Routed(node) == {e \in Endpoints : node.routes[e].priority # Nothing}

\* A connection is saved under an alias.
SavedOf(n) == IF n \in Aliases THEN disk.connections[n] ELSE Nothing

\* What topology, route list and the dashboard show as selected, and probe: the
\* rows of the node and its saved connection, with the health of routeHealth.
Shown(node, saved) ==
    Best([e \in Routed(node) \cup ({saved} \ {Nothing}) |->
             [priority |-> IF e \in Routed(node) THEN node.routes[e].priority ELSE SavedPriority,
              health |-> node.health[e]]])

\* What a command given an alias connects to: a row if there is one, whatever its
\* priority, by the health it has itself.  A host is connected to as it is named.
Used(node, saved) ==
    IF Routed(node) # {} THEN Best([e \in Routed(node) |-> node.routes[e]]) ELSE saved

-----------------------------------------------------------------------------
(* What each function makes of the value at its key.                       *)

SetWhitelist(v, standing) == [v EXCEPT !.policy = standing]
RemoveWhitelist(v) == [v EXCEPT !.policy = "unlisted"]

\* A route is set with the default priority.
MutDefaultPriority(v, E, priority) ==
    [v EXCEPT !.routes = [e \in Endpoints |->
        IF e \in E THEN [NoRow EXCEPT !.priority = 100] ELSE v.routes[e]]]

\* The row is replaced, without the health it had.
SetRoute(v, E, priority) ==
    [v EXCEPT !.routes = [e \in Endpoints |->
        IF e \in E THEN [health |-> NoHealth, priority |-> priority,
                         again |-> v.health[e] # NoHealth]
        ELSE v.routes[e]]]

RemoveRoute(v, E) ==
    [v EXCEPT !.routes = [e \in Endpoints |-> IF e \in E THEN NoRow ELSE v.routes[e]]]

\* A failure is counted for every probe.
MutNoReset(old, latency) ==
    [latency |-> latency, fails |-> old.fails + 1]

\* A latency of 0 is an error or an unexpected answer.
Probed(old, latency) ==
    [latency |-> latency, fails |-> IF latency = 0 THEN old.fails + 1 ELSE 0]

\* The health of a probe is kept in routeHealth alone.
MutRowKept(row, health) == row

ProbedRow(row, health) ==
    IF row.priority = Nothing THEN row ELSE [row EXCEPT !.health = health, !.again = FALSE]

SaveRouteHealth(v, E, latency) ==
    [v EXCEPT !.health = [e \in Endpoints |->
                  IF e \in E THEN Probed(v.health[e], latency) ELSE v.health[e]],
              !.routes = [e \in Endpoints |->
                  IF e \in E THEN ProbedRow(v.routes[e], Probed(v.health[e], latency))
                  ELSE v.routes[e]]]

SaveNodeRecord(v, status) == [v EXCEPT !.status = status]

\* op.at is a set of endpoints, op.arg a priority or a latency.
Updated(op, v) ==
    CASE op.do \in {"allowed", "denied"} -> SetWhitelist(v, op.do)
      [] op.do = "unlist" -> RemoveWhitelist(v)
      [] op.do = "route" -> SetRoute(v, op.at, op.arg)
      [] op.do = "unroute" -> RemoveRoute(v, op.at)
      [] op.do = "health" -> SaveRouteHealth(v, op.at, op.arg)
      [] op.do \in {"online", "offline", "unknown"} -> SaveNodeRecord(v, op.do)
      [] op.do = "connect" -> Least(op.at)
      [] op.do = "disconnect" -> Nothing
      [] op.do = "pair" -> "paired"
      [] op.do = "verify" -> "seen"
      [] op.do = "revoke" -> "revoked"
      [] op.do = "register" -> "listed"
      [] op.do = "forget" -> "none"
      [] op.do = "allow_rule" -> "rule"
      [] op.do = "remove_rule" -> "none"
      [] OTHER -> v     \* a heartbeat renews lastSeenAt

\* A pairing is judged by its expiry alone.
MutStatusByTime(record, overdue) ==
    IF overdue THEN "expired" ELSE "active"

MobileStatus(record, overdue) ==
    IF record = "revoked" THEN "revoked" ELSE IF overdue THEN "expired" ELSE "active"

\* A policy is initialised without a look at the file.
MutInitAnyway(op, content) ==
    CASE op.do = "unroute" -> Routed(content[op.key]) # {}
      [] op.do = "verify" -> /\ content[op.key] # "none" /\ op.key \in Scoped
                             /\ MobileStatus(content[op.key], life[op.key] = "over") = "active"
      [] op.do = "revoke" -> content[op.key] \notin {"none", "revoked"}
      [] op.do \in {"forget", "remove_rule"} -> content[op.key] # "none"
      [] OTHER -> TRUE

\* What a function asks of the content it has read before it goes on to write.
Goes(op, content) ==
    CASE op.do = "unroute" -> Routed(content[op.key]) # {}
      [] op.do = "verify" -> /\ content[op.key] # "none" /\ op.key \in Scoped
                             /\ MobileStatus(content[op.key], life[op.key] = "over") = "active"
      [] op.do = "revoke" -> content[op.key] \notin {"none", "revoked"}
      [] op.do \in {"forget", "remove_rule"} -> content[op.key] # "none"
      [] op.do = "init" -> ~made
      [] OTHER -> TRUE

\* A heartbeat puts its record back.
MutBeatRegisters(op, content) ==
    IF op.do = "init" THEN Empty("policy")
    ELSE IF op.do = "beat" THEN [content EXCEPT ![op.key] = "listed"]
    ELSE [content EXCEPT ![op.key] = Updated(op, @)]

\* A first policy is an empty one.
Written(op, content) ==
    IF op.do = "init" THEN Empty("policy")
    ELSE [content EXCEPT ![op.key] = Updated(op, @)]

-----------------------------------------------------------------------------
(* Reading a file, and replacing it.                                       *)

Op(file, do, key, at, arg) == [do |-> do, at |-> at, arg |-> arg, key |-> key, file |-> file]
NoOp == Op("policy", "init", CHOOSE r \in Rules : TRUE, {}, 0)

\* Nothing saved yet.
Fresh == [disk |-> [f \in Files |-> Empty(f)], made |-> FALSE,
          life |-> [x \in Devices \cup Processes |-> "new"]]

\* A row that was not set again since has the health that routeHealth has.
SameHealth(node) ==
    \A e \in Endpoints : node.routes[e].priority # Nothing /\ ~node.routes[e].again
                            => node.routes[e].health = node.health[e]

\* What earlier sessions leave: contents of each file, of nobody's policy nothing.
ASSUME BeginningsAssumption ==
    /\ \A b \in Beginnings :
        /\ b.disk = [f \in Files |-> b.disk[f]]
        /\ \A f \in Files : b.disk[f] \in Contents(f)
        /\ \A n \in Nodes : SameHealth(b.disk["swarm"][n])
        /\ b.made \in BOOLEAN /\ (~b.made => b.disk["policy"] = Empty("policy"))
        /\ b.life \in [Devices \cup Processes -> {"new", "live", "over"}]
    /\ Nothing \notin [file : Files, read : UNION {Contents(f) : f \in Files}]

\* copy: the content as read; after: it was settled that the device is revoked when
\* its verification began; todo: nodes that nodes status has yet to probe, each
\* with whether it has a route.
Idle == [op |-> NoOp, pc |-> "idle", copy |-> Empty("policy"), after |-> FALSE, todo |-> {}]

-----------------------------------------------------------------------------
(* What is asked of the files (history).  A fact is one thing a file says; *)
(* it is settled by a change saved while nobody else was between reading   *)
(* and writing that file, and unsettled by any other change of it.         *)

Facts ==
    ({"swarm"} \X Nodes \X {"policy", "status"} \X {Nothing})
    \cup ({"swarm"} \X Nodes \X {"priority", "fails"} \X Endpoints)
    \cup ({"connections"} \X Aliases \X {"entry"} \X {Nothing})
    \cup ({"devices"} \X Devices \X {"entry"} \X {Nothing})
    \cup ({"processes"} \X Processes \X {"entry"} \X {Nothing})
    \cup ({"policy"} \X Rules \X {"entry"} \X {Nothing})

FileOf(x) == x[1]
KeyOf(x) == x[2]
PartOf(x) == x[3]
EndpointOf(x) == x[4]

\* What a content of the file says.
Says(content, x) ==
    CASE PartOf(x) = "policy" -> content[KeyOf(x)].policy
      [] PartOf(x) = "status" -> content[KeyOf(x)].status
      [] PartOf(x) = "priority" -> content[KeyOf(x)].routes[EndpointOf(x)].priority
      [] PartOf(x) = "fails" -> content[KeyOf(x)].health[EndpointOf(x)].fails
      [] OTHER -> content[KeyOf(x)]

\* A heartbeat, and a policy where there is none, ask for no change.
Asks(op, x) ==
    /\ FileOf(x) = op.file /\ KeyOf(x) = op.key
    /\ CASE op.do \in {"allowed", "denied", "unlist"} -> PartOf(x) = "policy"
         [] op.do \in {"online", "offline", "unknown"} -> PartOf(x) = "status"
         [] op.do \in {"route", "unroute"} -> PartOf(x) = "priority" /\ EndpointOf(x) \in op.at
         [] op.do = "health" -> PartOf(x) = "fails" /\ EndpointOf(x) \in op.at
         [] OTHER -> op.do \notin {"init", "beat"}

\* Failed probes are counted from the last good one.
Asked(op, x) ==
    CASE op.do \in {"allowed", "denied", "online", "offline", "unknown"} -> op.do
      [] op.do = "unlist" -> "unlisted"
      [] op.do = "route" -> op.arg
      [] op.do = "connect" -> CHOOSE e \in op.at : TRUE
      [] op.do \in {"unroute", "disconnect"} -> Nothing
      [] op.do = "health" -> IF op.arg = 0 THEN kept[x] + 1 ELSE 0
      [] op.do = "pair" -> "paired"
      [] op.do = "verify" -> "seen"
      [] op.do = "revoke" -> "revoked"
      [] op.do = "register" -> "listed"
      [] op.do = "allow_rule" -> "rule"
      [] OTHER -> "none"

Alone(a, f) == \A b \in Actors \ {a} : actor[b].pc = "write" => actor[b].op.file # f

\* One more failure of an unknown number is an unknown number.
Settles(a, op, x) ==
    Alone(a, op.file) /\ (op.do = "health" /\ op.arg = 0 => x \in DOMAIN kept)

Kept(a, op) ==
    [x \in {y \in Facts : IF Asks(op, y) THEN Settles(a, op, y) ELSE y \in DOMAIN kept} |->
        IF Asks(op, x) THEN Asked(op, x) ELSE kept[x]]

IsKept(x, value) == x \in DOMAIN kept /\ kept[x] = value

-----------------------------------------------------------------------------
Init ==
    /\ \E b \in Beginnings : disk = b.disk /\ made = b.made /\ life = b.life
    /\ actor = [a \in Actors |-> Idle]
    /\ ops = 0
    /\ kept = [x \in Facts |-> Says(disk[FileOf(x)], x)]
    /\ admitted = {}

Begins(a, do) ==
    /\ actor[a].pc = "idle" /\ do \in Changes
    /\ ops < MaxOps /\ ops' = ops + 1

\* A function that finds nothing to do, or refuses, ends without a write.
Reads(a, op, todo) ==
    /\ actor' = [actor EXCEPT ![a] =
            IF Goes(op, disk[op.file])
            THEN [op |-> op, pc |-> "write", copy |-> disk[op.file],
                  after |-> op.do = "verify"
                            /\ IsKept(<<"devices", op.key, "entry", Nothing>>, "revoked"),
                  todo |-> todo]
            ELSE Idle]
    /\ UNCHANGED <<disk, made, kept, admitted>>

Load(a, op) == Begins(a, op.do) /\ Reads(a, op, {}) /\ UNCHANGED life

\* The write of op, after which the actor is as next says.
Saves(a, op, next) ==
    LET f == op.file IN
    /\ disk' = [disk EXCEPT ![f] = Written(op, actor[a].copy)]
    /\ made' = (made \/ f = "policy")
    /\ actor' = [actor EXCEPT ![a] = next]
    /\ kept' = Kept(a, op)
    /\ admitted' = IF actor[a].after THEN admitted \cup {op.key} ELSE admitted
    /\ UNCHANGED <<ops, life>>

Save(a) ==
    /\ actor[a].pc = "write"
    /\ actor[a].todo = {}
    /\ Saves(a, actor[a].op, Idle)

-----------------------------------------------------------------------------
(* The commands and handlers.                                              *)

ChangeWhitelist(a, n) ==
    \E do \in {"allowed", "denied", "unlist"} : Load(a, Op("swarm", do, n, {}, 0))

\* allow-tailscale and remove-tailscale are a change of each range.
ChangeRoutes(a, n) ==
    \/ \E e \in Endpoints, p \in Priorities : Load(a, Op("swarm", "route", n, {e}, p))
    \/ \E E \in SUBSET Endpoints : Load(a, Op("swarm", "unroute", n, E, 0))

\* The route to probe is chosen, and the file read again for the health to be
\* saved when the probe has ended.
PickRoute(a, n) ==
    /\ Begins(a, "health")
    /\ \E e \in IF Routed(disk.swarm[n]) # {} THEN Routed(disk.swarm[n])
               ELSE {SavedOf(n)} \ {Nothing}, l \in {0} \cup Latencies :
         actor' = [actor EXCEPT ![a] = [Idle EXCEPT !.pc = "probe",
                                            !.op = Op("swarm", "health", n, {e}, l)]]
    /\ UNCHANGED <<disk, made, life, kept, admitted>>

ReadForHealth(a) ==
    /\ actor[a].pc = "probe"
    /\ Reads(a, actor[a].op, {})
    /\ UNCHANGED <<ops, life>>

\* A node that has a route answers or does not.
Answers(routed) == IF routed THEN {"online", "offline"} ELSE {"unknown"}
HasRoute(n) == Shown(disk.swarm[n], SavedOf(n)) # Nothing

ProbeNode(a, n) == \E do \in Answers(HasRoute(n)) : Load(a, Op("swarm", do, n, {}, 0))

TopologyNodes ==
    {n \in Nodes : SavedOf(n) # Nothing \/ disk.swarm[n].policy # "unlisted"
                   \/ Routed(disk.swarm[n]) # {} \/ disk.swarm[n].status # "none"}

\* nodes status --all reads the file once and writes it after each probe.
ProbeAllNodes(a) ==
    /\ Begins(a, "all")
    /\ \E n \in TopologyNodes : \E do \in Answers(HasRoute(n)) :
         Reads(a, Op("swarm", do, n, {}, 0), {<<m, HasRoute(m)>> : m \in TopologyNodes \ {n}})
    /\ UNCHANGED life

SaveAndProbeNext(a) ==
    /\ actor[a].pc = "write"
    /\ \E t \in actor[a].todo : \E do \in Answers(t[2]) :
         Saves(a, actor[a].op,
               [actor[a] EXCEPT !.op = Op("swarm", do, t[1], {}, 0), !.todo = @ \ {t},
                                !.copy = Written(actor[a].op, @)])

ChangeConnection(a, n) ==
    \/ \E e \in Endpoints : Load(a, Op("connections", "connect", n, {e}, 0))
    \/ Load(a, Op("connections", "disconnect", n, {}, 0))

\* A pairing and a process have an identity of their own, used by others when
\* its record has been written.
Starts(a, op) ==
    /\ life[op.key] = "new"
    /\ life' = [life EXCEPT ![op.key] = "live"]
    /\ Begins(a, op.do) /\ Reads(a, op, {})

Known(x, do) ==
    /\ life[x] # "new"
    /\ \A a \in Actors : ~(actor[a].pc = "write" /\ actor[a].op.do = do /\ actor[a].op.key = x)

Pair(a, d) == Starts(a, Op("devices", "pair", d, {}, 0))
UseDevice(a, d) ==
    /\ Known(d, "pair")
    /\ \E do \in {"verify", "revoke"} : Load(a, Op("devices", do, d, {}, 0))

Register(a, p) == Starts(a, Op("processes", "register", p, {}, 0))
Heartbeat(a, p) ==
    /\ Known(p, "register") /\ life[p] = "live"
    /\ Load(a, Op("processes", "beat", p, {}, 0))
ForgetProcess(a, p) ==
    /\ Known(p, "register")
    /\ Load(a, Op("processes", "forget", p, {}, 0))

ChangePolicy(a, r) ==
    \E do \in {"init", "allow_rule", "remove_rule"} : Load(a, Op("policy", do, r, {}, 0))

\* A pairing expires, a process ends.  Neither touches a file.
Ends(x) ==
    /\ life[x] = "live"
    /\ life' = [life EXCEPT ![x] = "over"]
    /\ ops < MaxOps /\ ops' = ops + 1
    /\ UNCHANGED <<disk, made, actor, kept, admitted>>

Next ==
    \/ \E a \in Actors :
        \/ \E n \in Nodes : \/ ChangeWhitelist(a, n) \/ ChangeRoutes(a, n)
                            \/ PickRoute(a, n) \/ ProbeNode(a, n)
        \/ \E n \in Aliases : ChangeConnection(a, n)
        \/ ProbeAllNodes(a) \/ SaveAndProbeNext(a)
        \/ ReadForHealth(a) \/ Save(a)
        \/ \E d \in Devices : Pair(a, d) \/ UseDevice(a, d)
        \/ \E p \in Processes : Register(a, p) \/ Heartbeat(a, p) \/ ForgetProcess(a, p)
        \/ \E r \in Rules : ChangePolicy(a, r)
    \/ \E x \in Devices \cup Processes : Ends(x)

Spec == Init /\ [][Next]_vars

-----------------------------------------------------------------------------
(* Properties.                                                             *)

TypeOK ==
    /\ \A f \in Files : disk[f] \in Contents(f)
    /\ \A a \in Actors :
        /\ actor[a].pc \in {"idle", "probe", "write"} /\ actor[a].op.file \in Files
        /\ actor[a].pc = "write" => actor[a].copy \in Contents(actor[a].op.file)
        /\ actor[a].todo \subseteq Nodes \X BOOLEAN
    /\ \A n \in Nodes, e \in Endpoints : disk.swarm[n].health[e].fails \in Nat
    /\ made \in BOOLEAN /\ ops \in 0 .. MaxOps
    /\ life \in [Devices \cup Processes -> {"new", "live", "over"}]
    /\ DOMAIN kept \subseteq Facts /\ admitted \subseteq Devices

\* What a command has set, removed, forgotten or revoked stays as it asked, through
\* every other change, probe and heartbeat, until one asks otherwise.  Only who had
\* read the file before the change was saved, and writes it after, can undo it.
ChangesStand ==
    \A x \in DOMAIN kept : PartOf(x) # "fails" => Says(disk[FileOf(x)], x) = kept[x]

\* A mobile device is not let in by a request made after its revocation has been
\* saved, unless one who had read the devices before was still to write them.
RevokedStaysOut == admitted = {}

\* The failures shown for a route are its failed probes since the last good one,
\* whatever else was changed about the route, and again so from the first good
\* probe after two writers have met.
FailuresAreConsecutive ==
    \A x \in DOMAIN kept : PartOf(x) = "fails" => Says(disk[FileOf(x)], x) = kept[x]

\* "selected route is priority-first; health/latency is used only as a tie
\* breaker" (cli.py, route list): the route shown as selected for an alias is the
\* one a command connects to, but for two cases.  A row set again since its probe
\* has forgotten its health, so that another of the same priority may be used; and
\* a saved connection is shown before rows of its priority or worse, and not used.
ShownRouteIsUsed ==
    \A n \in Aliases :
        LET node == disk.swarm[n]
            shown == Shown(node, SavedOf(n))
            used == Used(node, SavedOf(n))
        IN \/ shown = used
           \/ /\ {shown, used} \subseteq Routed(node)
              /\ node.routes[shown].priority = node.routes[used].priority
              /\ \E e \in Routed(node) : /\ node.routes[e].again
                                         /\ node.routes[e].priority = node.routes[used].priority
           \/ /\ shown = SavedOf(n)
              /\ \A e \in Routed(node) : node.routes[e].priority >= SavedPriority

\* Every write is of a content its writer had read, one key changed.
S == INSTANCE SnapshotStore WITH
        Clients <- Actors, content <- disk,
        view <- [a \in Actors |-> IF actor[a].pc = "write"
                                  THEN [file |-> actor[a].op.file, read |-> actor[a].copy]
                                  ELSE Nothing]
ImplementsSnapshotStore == S!Spec
=============================================================================
