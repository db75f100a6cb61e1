---------------------------- MODULE MCStateFiles ----------------------------
(* A small instance of StateFiles for TLC.                                  *)
EXTENDS StateFiles, TLC

CONSTANTS n1, n2, d1, p1, p2, a1, a2

EndpointsMC == {1, 2}
PrioritiesMC == {-1, 2000}     \* before and behind a saved connection
CONSTANT r1, r2
\* Left by earlier sessions: a denied alias with two probed routes and a saved
\* connection, a paired device, a running process and a rule.  n2 is a host.
Good(l) == [latency |-> l, fails |-> 0]
UsedBefore ==
    [disk |-> [swarm |-> n1 :> [health |-> [e \in Endpoints |-> Good(3 - e)],
                                policy |-> "denied", status |-> "online",
                                routes |-> [e \in Endpoints |->
                                    [health |-> Good(3 - e), priority |-> -1, again |-> FALSE]]]
                         @@ n2 :> UnknownNode,
               connections |-> n1 :> 1,
               devices |-> d1 :> "paired", processes |-> p1 :> "listed" @@ p2 :> "none",
               policy |-> r1 :> "rule" @@ r2 :> "none"],
     made |-> TRUE,
     life |-> d1 :> "live" @@ p1 :> "live" @@ p2 :> "new"]
FreshOrUsed == {Fresh, UsedBefore}

Interchangeable == Permutations(Actors)
=============================================================================
