SPECIFICATION Spec
CONSTANTS
    n1 = n1
    n2 = n2
    d1 = d1
    p1 = p1
    p2 = p2
    a1 = a1
    a2 = a2
    Nodes = {n1, n2}
    Aliases = {n1}
    Endpoints <- EndpointsMC
    Priorities <- PrioritiesMC
    Devices = {d1}
    Scoped = {d1}
    Processes = {p1, p2}
    Rules = {r1, r2}
    Actors = {a1, a2}
    Nothing = Nothing
    Beginnings <- FreshOrUsed
    r1 = r1
    r2 = r2
    Changes = {"allowed", "denied", "unlist", "route", "unroute", "health", "online",
               "offline", "unknown", "all", "connect", "disconnect", "pair", "verify", "revoke",
               "register", "beat", "forget", "init", "allow_rule", "remove_rule"}
    MaxOps = 3
SYMMETRY Interchangeable
INVARIANTS TypeOK ChangesStand RevokedStaysOut FailuresAreConsecutive ShownRouteIsUsed
PROPERTIES ImplementsSnapshotStore
CHECK_DEADLOCK FALSE
