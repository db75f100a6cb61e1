---------------------------- MODULE AccessControl ----------------------------
(***************************************************************************)
(* What a slave does with a request before its handler runs: the block *)
(* after failed logins and the sliding windows of security.py, and the     *)
(* nonces, sessions and client policy of SlaveState, on the concurrent     *)
(* threads of the server, of which the semaphore admits a fixed number.    *)
(*                                                                         *)
(* Every method takes the time before it takes a lock, so that a thread    *)
(* may work with a time that others have left behind, and nothing is held  *)
(* between the steps below.  Times are ticks of an abstract clock.         *)
(***************************************************************************)
EXTENDS Naturals, Sequences, FiniteSets, FiniteSetsExt

CONSTANTS Clients,          \* addresses, each of one identity
          Nonces, NoNonce,  \* nonces; the token of a session is named by its nonce
          Threads,          \* the slots of the semaphore, max_concurrent_requests
          Scopes,
          Policy,           \* "off", "warn" or "strict"
          Limit,            \* events per window, of each kind of limiter
          Window, BlockTime, NonceLife, SessionLife,
          MaxTime           \* bound on the clock

Limiters == {"unauthenticated", "authenticated", "login_failures"}

ASSUME AccessAssumption ==
    /\ Policy \in {"off", "warn", "strict"}
    /\ NoNonce \notin Nonces /\ Limit \in [Limiters -> Nat \ {0}]
    /\ {Window, BlockTime, NonceLife, SessionLife} \subseteq Nat /\ MaxTime \in Nat \ {0}
    /\ IsFiniteSet(Threads) /\ Clients # {}

VARIABLES now,
          events,     \* buckets of the limiters, for each client
          blocked,    \* blocked_until, for each client; 0 for none
          nonces,     \* expiry of each nonce; 0 for none
          sessions,   \* sessions by token
          listed,     \* the client's standing in the whitelist, which others edit
          thr,        \* the threads
          issued,     \* history: nonces handed out
          logins,     \* history: sessions made from each nonce
          wrong,      \* history: times at which wrong proofs were compared
          late        \* history: when the clock last overtook an uncounted failure

vars == <<now, events, blocked, nonces, sessions, listed, thr, issued, logins, wrong, late>>

-----------------------------------------------------------------------------
Session == [expires : Nat, scopes : SUBSET Scopes, client : Clients]
NoSession == [expires |-> 0, scopes |-> {}, client |-> CHOOSE c \in Clients : TRUE]

Steps == {"idle", "blocked", "rate", "challenge", "login", "failure", "count", "login_policy",
          "grant", "token", "session_policy", "slide", "handler"}

\* kind: what is asked; at: the time the current method took; nonce: of the
\* login, or the token; good: whether the proof is right.  History: welcome,
\* whether the policy would have admitted the client at some moment since the
\* request arrived.
ThreadState == [pc : Steps, client : Clients, kind : {"challenge", "login", "use"},
                nonce : Nonces \cup {NoNonce}, good : BOOLEAN, scopes : SUBSET Scopes, at : Nat,
                welcome : BOOLEAN]
IdleThread == [pc |-> "idle", client |-> CHOOSE c \in Clients : TRUE, kind |-> "challenge",
               nonce |-> NoNonce, good |-> FALSE, scopes |-> {}, at |-> 0,
               welcome |-> FALSE]

TypeOK ==
    /\ now \in 1 .. MaxTime
    /\ events \in [Clients -> [Limiters -> Seq(1 .. MaxTime)]]
    /\ \A c \in Clients, l \in Limiters : Len(events[c][l]) <= Limit[l]
    /\ blocked \in [Clients -> Nat]
    /\ nonces \in [Nonces -> Nat]
    /\ sessions \in [Nonces -> Session]
    /\ listed \in [Clients -> {"allowed", "denied", "unlisted"}]
    /\ thr \in [Threads -> ThreadState]
    /\ issued \subseteq Nonces
    /\ logins \in [Nonces -> Nat]
    /\ late \in [Clients -> Nat]

Init ==
    /\ now = 1
    /\ events = [c \in Clients |-> [l \in Limiters |-> <<>>]]
    /\ blocked = [c \in Clients |-> 0]
    /\ nonces = [n \in Nonces |-> 0]
    /\ sessions = [n \in Nonces |-> NoSession]
    /\ listed = [c \in Clients |-> "unlisted"]
    /\ thr = [t \in Threads |-> IdleThread]
    /\ issued = {}
    /\ logins = [n \in Nonces |-> 0]
    /\ wrong = [c \in Clients |-> <<>>]
    /\ late = [c \in Clients |-> 0]

-----------------------------------------------------------------------------
(* The sliding windows of security.py.                                     *)

\* Events older than the window at time t leave the front of the bucket.
Trim(bucket, t) ==
    LET live == {k \in 1 .. Len(bucket) : bucket[k] + Window >= t}
    IN  IF live = {} THEN <<>> ELSE SubSeq(bucket, Min(live), Len(bucket))

MutOneMore(l, bucket) == Len(bucket) > Limit[l]
Full(l, bucket) == Len(bucket) >= Limit[l]

\* allow: an event at time t is counted only if the bucket is not full.
Allowed(c, l, t) == ~Full(l, Trim(events[c][l], t))
Allow(c, l, t) ==
    events' = [events EXCEPT ![c][l] =
        IF Allowed(c, l, t) THEN Append(Trim(@, t), t) ELSE Trim(@, t)]

-----------------------------------------------------------------------------
(* run_guarded and check_rate: the semaphore, the block and the rate.      *)

Goto(t, pc) == thr' = [thr EXCEPT ![t].pc = pc]
\* The next method takes the time as it starts.
GotoNow(t, pc) == thr' = [thr EXCEPT ![t].pc = pc, ![t].at = now]
\* The answer, and the slot is free again whatever the handler did.
Respond(t) == thr' = [thr EXCEPT ![t] = IdleThread]

MutOnlyDenied(standing) == standing # "denied"
Admits(standing) ==
    \/ Policy = "off"
    \/ standing = "allowed"
    \/ standing = "unlisted" /\ Policy = "warn"

\* Whose standing counts: the client's at a login, and the owner's of a session.
Identity(kind, c, n) == IF kind = "use" THEN sessions[n].client ELSE c

\* A challenge carries nothing, a login a nonce and its proof, and any other
\* request a token and the scope it needs.
Requests ==
    [kind : {"challenge"}, nonce : {NoNonce}, good : {FALSE}, scopes : {{}}]
    \cup [kind : {"login"}, nonce : issued, good : BOOLEAN, scopes : SUBSET Scopes \ {{}}]
    \cup [kind : {"use"}, nonce : {n \in Nonces : logins[n] > 0}, good : {FALSE},
          scopes : {{s} : s \in Scopes}]

\* A request that finds no free slot is answered 503 and changes nothing here.
Arrive(t, c) ==
    /\ thr[t].pc = "idle"
    /\ \E r \in Requests :
          thr' = [thr EXCEPT ![t] =
             [pc |-> "blocked", client |-> c, kind |-> r.kind, nonce |-> r.nonce, good |-> r.good,
              scopes |-> r.scopes, at |-> now,
              welcome |-> Admits(listed[Identity(r.kind, c, r.nonce)])]]
    /\ UNCHANGED <<now, events, blocked, nonces, sessions, listed, issued, logins, wrong, late>>

CheckBlocked(t) ==
    /\ thr[t].pc = "blocked"
    /\ LET c == thr[t].client IN
       IF blocked[c] > thr[t].at THEN Respond(t) /\ UNCHANGED blocked
                                 ELSE Goto(t, "rate") /\ blocked' = [blocked EXCEPT ![c] = 0]
    /\ UNCHANGED <<now, events, nonces, sessions, listed, issued, logins, wrong, late>>

LimiterOf(kind) ==
    IF kind \in {"login", "challenge"} THEN "unauthenticated" ELSE "authenticated"

CheckRate(t) ==
    /\ thr[t].pc = "rate"
    /\ LET l == LimiterOf(thr[t].kind) IN
       /\ Allow(thr[t].client, l, thr[t].at)
       /\ IF ~Allowed(thr[t].client, l, thr[t].at) THEN Respond(t)
          ELSE GotoNow(t, CASE thr[t].kind = "challenge" -> "challenge"
                            [] thr[t].kind = "login" -> "login"
                            [] thr[t].kind = "use" -> "token")
    /\ UNCHANGED <<now, blocked, nonces, sessions, listed, issued, logins, wrong, late>>

-----------------------------------------------------------------------------
(* SlaveState.challenge and SlaveState.login                               *)

Challenge(t) ==
    /\ thr[t].pc = "challenge"
    /\ \E n \in Nonces \ issued :
          /\ nonces' = [nonces EXCEPT ![n] = now + NonceLife]
          /\ issued' = issued \cup {n}
    /\ Respond(t)
    /\ UNCHANGED <<now, events, blocked, sessions, listed, logins, wrong, late>>

PoppedNonce(n) == [nonces EXCEPT ![n] = 0]

\* The nonce is popped whatever follows; then the proof is compared.
Login(t) ==
    /\ thr[t].pc = "login"
    /\ LET n == thr[t].nonce IN
       /\ nonces' = PoppedNonce(n)
       /\ IF nonces[n] < thr[t].at THEN Respond(t) /\ UNCHANGED wrong
          ELSE IF thr[t].good THEN Goto(t, "login_policy") /\ UNCHANGED wrong
          ELSE /\ GotoNow(t, "failure")
               /\ wrong' = [wrong EXCEPT ![thr[t].client] = Append(@, now)]
    /\ UNCHANGED <<now, events, blocked, sessions, listed, issued, logins, late>>

\* note_login_failure counts the failure, and then looks at the count.
RecordFailure(t) ==
    /\ thr[t].pc = "failure"
    /\ Allow(thr[t].client, "login_failures", thr[t].at)
    /\ Goto(t, "count")
    /\ UNCHANGED <<now, blocked, nonces, sessions, listed, issued, logins, wrong, late>>

MutBlockedEarly(c, at) == at
BlockedUntil(c, at) == at + BlockTime

CountFailures(t) ==
    /\ thr[t].pc = "count"
    /\ LET c == thr[t].client
           bucket == Trim(events[c]["login_failures"], thr[t].at)
       IN  /\ events' = [events EXCEPT ![c]["login_failures"] = bucket]
           /\ blocked' = IF Len(bucket) >= Limit["login_failures"]
                         THEN [blocked EXCEPT ![c] = BlockedUntil(c, thr[t].at)] ELSE blocked
    /\ Respond(t)
    /\ UNCHANGED <<now, nonces, sessions, listed, issued, logins, wrong, late>>

CheckLoginPolicy(t) ==
    /\ thr[t].pc = "login_policy"
    /\ IF Admits(listed[thr[t].client]) THEN Goto(t, "grant") ELSE Respond(t)
    /\ UNCHANGED <<now, events, blocked, nonces, sessions, listed, issued, logins, wrong, late>>

\* The new session expires by the time the login took.
Grant(t) ==
    /\ thr[t].pc = "grant"
    /\ sessions' = [sessions EXCEPT ![thr[t].nonce] =
            [expires |-> thr[t].at + SessionLife, scopes |-> thr[t].scopes,
             client |-> thr[t].client]]
    /\ logins' = [logins EXCEPT ![thr[t].nonce] = @ + 1]
    /\ Respond(t)
    /\ UNCHANGED <<now, events, blocked, nonces, listed, issued, wrong, late>>

-----------------------------------------------------------------------------
(* SlaveState.require_token                                                *)

Valid(n, at) == sessions[n].expires >= at /\ sessions[n] # NoSession

ReadSession(t) ==
    /\ thr[t].pc = "token"
    /\ IF Valid(thr[t].nonce, thr[t].at) THEN Goto(t, "session_policy") ELSE Respond(t)
    /\ UNCHANGED <<now, events, blocked, nonces, sessions, listed, issued, logins, wrong, late>>

MutAnySession(t) == TRUE
SessionPolicyAdmits(t) == Admits(listed[sessions[thr[t].nonce].client])

CheckSessionPolicy(t) ==
    /\ thr[t].pc = "session_policy"
    /\ IF SessionPolicyAdmits(t) /\ thr[t].scopes \subseteq sessions[thr[t].nonce].scopes
       THEN Goto(t, "slide") ELSE Respond(t)
    /\ UNCHANGED <<now, events, blocked, nonces, sessions, listed, issued, logins, wrong, late>>

\* The session is looked up again, and its expiry is moved.
SlideSession(t) ==
    /\ thr[t].pc = "slide"
    /\ IF Valid(thr[t].nonce, thr[t].at)
       THEN /\ sessions' = [sessions EXCEPT ![thr[t].nonce].expires = thr[t].at + SessionLife]
            /\ Goto(t, "handler")
       ELSE Respond(t) /\ UNCHANGED sessions
    /\ UNCHANGED <<now, events, blocked, nonces, listed, issued, logins, wrong, late>>

\* The handler itself, which returns or raises.
Handle(t) ==
    /\ thr[t].pc = "handler"
    /\ Respond(t)
    /\ UNCHANGED <<now, events, blocked, nonces, sessions, listed, issued, logins, wrong, late>>

-----------------------------------------------------------------------------
\* Failures of the client that are compared and not counted yet.
Uncounted(c) == {t \in Threads : thr[t].client = c /\ thr[t].pc \in {"failure", "count"}}

Tick ==
    /\ now < MaxTime
    /\ now' = now + 1
    /\ late' = [c \in Clients |-> IF Uncounted(c) # {} THEN now + 1 ELSE late[c]]
    /\ UNCHANGED <<events, blocked, nonces, sessions, listed, thr, issued, logins, wrong>>

\* agentremote policy allow, deny and remove write the whitelist, in another
\* process; every check reads it again.
EditWhitelist(c) ==
    /\ Policy # "off"
    /\ listed' \in [Clients -> {"allowed", "denied", "unlisted"}]
    /\ listed' # listed /\ \A d \in Clients \ {c} : listed'[d] = listed[d]
    /\ thr' = [t \in Threads |->
          LET who == Identity(thr[t].kind, thr[t].client, thr[t].nonce)
          IN  [thr[t] EXCEPT !.welcome = @ \/ (thr[t].pc # "idle" /\ Admits(listed'[who]))]]
    /\ UNCHANGED <<now, events, blocked, nonces, sessions, issued, logins, wrong, late>>

Step(t) == \/ CheckBlocked(t) \/ CheckRate(t)
           \/ Challenge(t) \/ Login(t) \/ RecordFailure(t) \/ CountFailures(t)
           \/ CheckLoginPolicy(t) \/ Grant(t)
           \/ ReadSession(t) \/ CheckSessionPolicy(t) \/ SlideSession(t) \/ Handle(t)

Next ==
    \/ \E t \in Threads : Step(t) \/ \E c \in Clients : Arrive(t, c)
    \/ \E c \in Clients : EditWhitelist(c)
    \/ Tick

Spec == Init /\ [][Next]_vars

-----------------------------------------------------------------------------
(* Properties                                                              *)

\* A nonce makes at most one session, however many logins carry it at once.
NonceUsedOnce == \A n \in Nonces : logins[n] <= 1

\* A handler is entered, and a session made, only for a client the policy
\* admitted at some moment since the request arrived: denying a client also
\* ends the sessions it holds.
DeniedClientsStayOut ==
    \A t \in Threads : thr[t].pc \in {"slide", "handler", "grant"} => thr[t].welcome

\* Guessing is bounded: in a window since whose beginning the clock overtook no
\* failure on its way from the comparison to the count, the wrong proofs compared for
\* a client exceed the limit at most by the logins that were already past the block.
GuessesBounded ==
    \A c \in Clients : \A s \in late[c] + 1 .. MaxTime :
        Cardinality({k \in 1 .. Len(wrong[c]) : wrong[c][k] \in s .. s + Window})
            <= Limit["login_failures"] + Cardinality(Threads) - 1
=============================================================================
