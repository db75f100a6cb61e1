------------------------- MODULE AccessControlProofs -------------------------
(***************************************************************************)
(* Proofs about AccessControl, for any clients, nonces, threads, limits    *)
(* and times: a nonce makes at most one session, a client the policy does  *)
(* not admit is not let in, no bucket holds more than its limit, and the   *)
(* wrong proofs of a window are bounded.                                   *)
(***************************************************************************)
EXTENDS AccessControl, SequenceTheorems, FiniteSetTheorems, WellFoundedInduction, TLAPS

-----------------------------------------------------------------------------
(* What the steps of a thread rest on: which kinds of requests get where,  *)
(* and that the time a login compares with an expiry is never 0.           *)

ThreadOK(x) ==
    /\ x \in ThreadState
    /\ x.kind # "challenge" => x.nonce \in Nonces
    /\ x.pc \in {"login", "failure", "count", "login_policy", "grant"} =>
           x.kind = "login" /\ x.at >= 1
    /\ x.pc \in {"token", "session_policy", "slide", "handler"} => x.kind = "use"
    /\ x.pc = "challenge" => x.kind = "challenge"

StateInv ==
    /\ now \in Nat \ {0}
    /\ nonces \in [Nonces -> Nat]
    /\ sessions \in [Nonces -> Session]
    /\ logins \in [Nonces -> Nat]
    /\ issued \subseteq Nonces
    /\ DOMAIN thr = Threads /\ thr = [t \in Threads |-> thr[t]]
    /\ \A t \in Threads : ThreadOK(thr[t])

LEMMA IdleOK == ThreadOK(IdleThread) /\ NoSession \in Session
  <1>1. (CHOOSE c \in Clients : TRUE) \in Clients
    BY AccessAssumption
  <1> QED
    BY <1>1 DEF ThreadOK, IdleThread, ThreadState, Steps, NoSession, Session

\* The threads stay good, and only t has changed.
Moved(t) ==
    /\ DOMAIN thr' = Threads /\ thr' = [u \in Threads |-> thr'[u]]
    /\ \A u \in Threads : ThreadOK(thr'[u])
    /\ \A u \in Threads \ {t} : thr'[u] = thr[u]

\* t goes on with its request.
GoesOn(t, pc) ==
    /\ Moved(t)
    /\ thr'[t].pc = pc /\ thr'[t].kind = thr[t].kind /\ thr'[t].nonce = thr[t].nonce
    /\ thr'[t].client = thr[t].client /\ thr'[t].welcome = thr[t].welcome

\* The kind of request that reaches pc.
MayGo(t, pc) ==
    /\ pc \in Steps
    /\ pc \in {"login", "failure", "count", "login_policy", "grant"} => thr[t].kind = "login"
    /\ pc \in {"token", "session_policy", "slide", "handler"} => thr[t].kind = "use"
    /\ pc = "challenge" => thr[t].kind = "challenge"

\* A thread that gets a good state keeps the threads good.
LEMMA ThreadMoves ==
    ASSUME StateInv, NEW t \in Threads, NEW x, ThreadOK(x), thr' = [thr EXCEPT ![t] = x]
    PROVE  Moved(t) /\ thr'[t] = x
  <1>1. thr' = [u \in Threads |-> IF u = t THEN x ELSE thr[u]]
    BY DEF StateInv
  <1>2. /\ thr'[t] = x
        /\ \A u \in Threads \ {t} : thr'[u] = thr[u]
        /\ DOMAIN thr' = Threads
    BY <1>1
  <1>3. thr' = [u \in Threads |-> thr'[u]]
    BY <1>1, Zenon
  <1>4. \A u \in Threads : ThreadOK(thr'[u])
    BY <1>2 DEF StateInv
  <1> QED
    BY <1>2, <1>3, <1>4 DEF Moved

LEMMA RespondMoves ==
    ASSUME StateInv, NEW t \in Threads, Respond(t)
    PROVE  Moved(t) /\ thr'[t].pc = "idle"
  <1>1. IdleThread.pc = "idle"
    BY DEF IdleThread
  <1> QED
    BY <1>1, IdleOK, ThreadMoves DEF Respond

LEMMA GotoMoves ==
    ASSUME StateInv, NEW t \in Threads, NEW pc, MayGo(t, pc), Goto(t, pc),
           pc \in {"login", "failure", "count", "login_policy", "grant"} => thr[t].at >= 1
    PROVE  GoesOn(t, pc)
  <1> DEFINE x == [thr[t] EXCEPT !.pc = pc]
  <1>1. ThreadOK(thr[t]) /\ thr' = [thr EXCEPT ![t] = x]
    BY DEF StateInv, Goto
  <1>2. /\ x \in ThreadState
        /\ x.pc = pc /\ x.kind = thr[t].kind /\ x.nonce = thr[t].nonce /\ x.at = thr[t].at
        /\ x.client = thr[t].client /\ x.welcome = thr[t].welcome
    BY <1>1 DEF ThreadOK, ThreadState, MayGo
  <1> HIDE DEF x
  <1>3. ThreadOK(x)
    BY <1>1, <1>2 DEF ThreadOK, MayGo
  <1> QED
    BY <1>1, <1>2, <1>3, ThreadMoves DEF GoesOn

LEMMA GotoNowMoves ==
    ASSUME StateInv, NEW t \in Threads, NEW pc, MayGo(t, pc), GotoNow(t, pc)
    PROVE  GoesOn(t, pc)
  <1> DEFINE x == [thr[t] EXCEPT !.pc = pc, !.at = now]
  <1>1. ThreadOK(thr[t]) /\ thr' = [thr EXCEPT ![t] = x]
    BY DEF StateInv, GotoNow
  <1>2. /\ x \in ThreadState
        /\ x.pc = pc /\ x.kind = thr[t].kind /\ x.nonce = thr[t].nonce /\ x.at = now
        /\ x.client = thr[t].client /\ x.welcome = thr[t].welcome
    BY <1>1 DEF ThreadOK, ThreadState, MayGo, StateInv
  <1>3. now >= 1
    BY DEF StateInv
  <1> HIDE DEF x
  <1>4. ThreadOK(x)
    BY <1>1, <1>2, <1>3 DEF ThreadOK, MayGo
  <1> QED
    BY <1>1, <1>2, <1>4, ThreadMoves DEF GoesOn

-----------------------------------------------------------------------------
(* The state invariant, action by action.                                  *)

LEMMA StateInit == Init => StateInv
  BY IdleOK, AccessAssumption DEF Init, StateInv

\* A step of t keeps the state good and moves no other thread.
LEMMA StateStep ==
    ASSUME StateInv, NEW t \in Threads, Step(t)
    PROVE  StateInv' /\ Moved(t)
  <1> USE DEF Moved, GoesOn
  <1>0. ThreadOK(thr[t]) /\ thr[t] \in ThreadState
    BY DEF StateInv, ThreadOK
  <1>1. CASE CheckBlocked(t)
    <2>1. Moved(t)
      <3>1. CASE Respond(t)
        BY <3>1, RespondMoves
      <3>2. CASE Goto(t, "rate")
        <4>1. MayGo(t, "rate")
          BY DEF MayGo, Steps
        <4> QED
          BY <3>2, <4>1, GotoMoves
      <3> QED
        BY <1>1, <3>1, <3>2 DEF CheckBlocked
    <2> QED
      BY <1>1, <2>1 DEF CheckBlocked, StateInv
  <1>2. CASE CheckRate(t)
    <2>1. Moved(t)
      <3>1. CASE Respond(t)
        BY <3>1, RespondMoves
      <3>2. CASE thr[t].kind = "challenge" /\ GotoNow(t, "challenge")
        <4>1. MayGo(t, "challenge")
          BY <3>2 DEF MayGo, Steps
        <4> QED
          BY <3>2, <4>1, GotoNowMoves
      <3>3. CASE thr[t].kind = "login" /\ GotoNow(t, "login")
        <4>1. MayGo(t, "login")
          BY <3>3 DEF MayGo, Steps
        <4> QED
          BY <3>3, <4>1, GotoNowMoves
      <3>4. CASE thr[t].kind = "use" /\ GotoNow(t, "token")
        <4>1. MayGo(t, "token")
          BY <3>4 DEF MayGo, Steps
        <4> QED
          BY <3>4, <4>1, GotoNowMoves
      <3>5. thr[t].kind \in {"challenge", "login", "use"}
        BY <1>0 DEF ThreadState
      <3> QED
        BY <1>2, <3>1, <3>2, <3>3, <3>4, <3>5 DEF CheckRate
    <2> QED
      BY <1>2, <2>1 DEF CheckRate, StateInv
  <1>3. CASE Challenge(t)
    <2>1. Moved(t)
      BY <1>3, RespondMoves DEF Challenge
    <2>2. nonces' \in [Nonces -> Nat] /\ issued' \subseteq Nonces
      BY <1>3, AccessAssumption DEF Challenge, StateInv
    <2> QED
      BY <1>3, <2>1, <2>2 DEF Challenge, StateInv
  <1>4. CASE Login(t)
    <2>0. thr[t].kind = "login" /\ thr[t].at >= 1 /\ thr[t].nonce \in Nonces
      BY <1>0, <1>4 DEF Login, ThreadOK
    <2>1. Moved(t)
      <3>1. CASE Respond(t)
        BY <3>1, RespondMoves
      <3>2. CASE Goto(t, "login_policy")
        <4>1. MayGo(t, "login_policy")
          BY <2>0 DEF MayGo, Steps
        <4> QED
          BY <2>0, <3>2, <4>1, GotoMoves
      <3>3. CASE GotoNow(t, "failure")
        <4>1. MayGo(t, "failure")
          BY <2>0 DEF MayGo, Steps
        <4> QED
          BY <3>3, <4>1, GotoNowMoves
      <3> QED
        BY <1>4, <3>1, <3>2, <3>3 DEF Login
    <2>2. nonces' \in [Nonces -> Nat]
      BY <1>4 DEF Login, PoppedNonce, StateInv
    <2> QED
      BY <1>4, <2>1, <2>2 DEF Login, StateInv
  <1>5. CASE RecordFailure(t)
    <2>0. thr[t].kind = "login" /\ thr[t].at >= 1
      BY <1>0, <1>5 DEF RecordFailure, ThreadOK
    <2>1. MayGo(t, "count")
      BY <2>0 DEF MayGo, Steps
    <2>2. Moved(t)
      BY <1>5, <2>0, <2>1, GotoMoves DEF RecordFailure
    <2> QED
      BY <1>5, <2>2 DEF RecordFailure, StateInv
  <1>6. CASE CountFailures(t)
    <2>1. Moved(t)
      BY <1>6, RespondMoves DEF CountFailures
    <2> QED
      BY <1>6, <2>1 DEF CountFailures, StateInv
  <1>7. CASE CheckLoginPolicy(t)
    <2>0. thr[t].kind = "login" /\ thr[t].at >= 1
      BY <1>0, <1>7 DEF CheckLoginPolicy, ThreadOK
    <2>1. MayGo(t, "grant")
      BY <2>0 DEF MayGo, Steps
    <2>2. Moved(t)
      BY <1>7, <2>0, <2>1, GotoMoves, RespondMoves DEF CheckLoginPolicy
    <2> QED
      BY <1>7, <2>2 DEF CheckLoginPolicy, StateInv
  <1>8. CASE Grant(t)
    <2>0. thr[t].nonce \in Nonces /\ thr[t].at \in Nat /\ thr[t].scopes \subseteq Scopes
          /\ thr[t].client \in Clients
      BY <1>0, <1>8 DEF Grant, ThreadOK, ThreadState
    <2>1. Moved(t)
      BY <1>8, RespondMoves DEF Grant
    <2>2. [expires |-> thr[t].at + SessionLife, scopes |-> thr[t].scopes,
           client |-> thr[t].client] \in Session
      BY <2>0, AccessAssumption DEF Session
    <2>3. sessions' \in [Nonces -> Session] /\ logins' \in [Nonces -> Nat]
      BY <1>8, <2>0, <2>2 DEF Grant, StateInv
    <2> QED
      BY <1>8, <2>1, <2>3 DEF Grant, StateInv
  <1>9. CASE ReadSession(t)
    <2>0. thr[t].kind = "use"
      BY <1>0, <1>9 DEF ReadSession, ThreadOK
    <2>1. MayGo(t, "session_policy")
      BY <2>0 DEF MayGo, Steps
    <2>2. Moved(t)
      BY <1>9, <2>1, GotoMoves, RespondMoves DEF ReadSession
    <2> QED
      BY <1>9, <2>2 DEF ReadSession, StateInv
  <1>10. CASE CheckSessionPolicy(t)
    <2>0. thr[t].kind = "use"
      BY <1>0, <1>10 DEF CheckSessionPolicy, ThreadOK
    <2>1. MayGo(t, "slide")
      BY <2>0 DEF MayGo, Steps
    <2>2. Moved(t)
      BY <1>10, <2>1, GotoMoves, RespondMoves DEF CheckSessionPolicy
    <2> QED
      BY <1>10, <2>2 DEF CheckSessionPolicy, StateInv
  <1>11. CASE SlideSession(t)
    <2>0. thr[t].kind = "use" /\ thr[t].nonce \in Nonces /\ thr[t].at \in Nat
      BY <1>0, <1>11 DEF SlideSession, ThreadOK, ThreadState
    <2>1. MayGo(t, "handler")
      BY <2>0 DEF MayGo, Steps
    <2>2. Moved(t)
      BY <1>11, <2>1, GotoMoves, RespondMoves DEF SlideSession
    <2>3. sessions' \in [Nonces -> Session]
      BY <1>11, <2>0, AccessAssumption DEF SlideSession, StateInv, Session
    <2> QED
      BY <1>11, <2>2, <2>3 DEF SlideSession, StateInv
  <1>12. CASE Handle(t)
    <2>1. Moved(t)
      BY <1>12, RespondMoves DEF Handle
    <2> QED
      BY <1>12, <2>1 DEF Handle, StateInv
  <1> QED
    BY <1>1, <1>2, <1>3, <1>4, <1>5, <1>6, <1>7, <1>8, <1>9, <1>10, <1>11, <1>12 DEF Step

\* The state of a request that has just arrived.
Arrived(r, c) ==
    [pc |-> "blocked", client |-> c, kind |-> r.kind, nonce |-> r.nonce, good |-> r.good,
     scopes |-> r.scopes, at |-> now, welcome |-> Admits(listed[Identity(r.kind, c, r.nonce)])]

LEMMA ArriveMoves ==
    ASSUME StateInv, NEW t \in Threads, NEW c \in Clients, Arrive(t, c)
    PROVE  \E r \in Requests : Moved(t) /\ thr'[t] = Arrived(r, c)
  <1>1. PICK r \in Requests : thr' = [thr EXCEPT ![t] = Arrived(r, c)]
    BY Zenon DEF Arrive, Arrived
  <1>2. /\ r.kind \in {"challenge", "login", "use"} /\ r.nonce \in Nonces \cup {NoNonce}
        /\ r.good \in BOOLEAN /\ r.scopes \subseteq Scopes
        /\ r.kind # "challenge" => r.nonce \in Nonces
    BY ZenonT(60) DEF Requests, StateInv
  <1>3. Admits(listed[Identity(r.kind, c, r.nonce)]) \in BOOLEAN
    BY Zenon DEF Admits
  <1>4. ThreadOK(Arrived(r, c))
    <2>1. /\ Arrived(r, c).pc = "blocked" /\ Arrived(r, c).kind = r.kind
          /\ Arrived(r, c).nonce = r.nonce
      BY DEF Arrived
    <2>2. Arrived(r, c) \in ThreadState
      BY <1>2, <1>3 DEF Arrived, ThreadState, Steps, StateInv
    <2> QED
      BY <1>2, <2>1, <2>2 DEF ThreadOK
  <1> QED
    BY <1>1, <1>4, ThreadMoves

LEMMA EditWelcomes ==
    ASSUME StateInv, NEW c \in Clients, EditWhitelist(c), NEW t \in Threads
    PROVE  /\ ThreadOK(thr'[t])
           /\ thr'[t].pc = thr[t].pc /\ thr'[t].kind = thr[t].kind /\ thr'[t].nonce = thr[t].nonce
           /\ thr'[t].client = thr[t].client
           /\ thr'[t].welcome = (\/ thr[t].welcome
                                 \/ /\ thr[t].pc # "idle"
                                    /\ Admits(listed'[Identity(thr[t].kind, thr[t].client,
                                                               thr[t].nonce)]))
  <1> DEFINE w == \/ thr[t].welcome
                  \/ /\ thr[t].pc # "idle"
                     /\ Admits(listed'[Identity(thr[t].kind, thr[t].client, thr[t].nonce)])
  <1>1. ThreadOK(thr[t])
    BY DEF StateInv
  <1>2. thr'[t] = [thr[t] EXCEPT !.welcome = w]
    BY DEF EditWhitelist
  <1>3. w \in BOOLEAN
    BY <1>1, Zenon DEF Admits
  <1> HIDE DEF w
  <1>4. /\ thr'[t] \in ThreadState
        /\ thr'[t].pc = thr[t].pc /\ thr'[t].kind = thr[t].kind /\ thr'[t].nonce = thr[t].nonce
        /\ thr'[t].client = thr[t].client /\ thr'[t].at = thr[t].at /\ thr'[t].welcome = w
    BY <1>1, <1>2, <1>3 DEF ThreadOK, ThreadState
  <1>5. ThreadOK(thr'[t])
    BY <1>1, <1>4 DEF ThreadOK
  <1> QED
    BY <1>4, <1>5 DEF w

LEMMA StateNext == StateInv /\ [Next]_vars => StateInv'
  <1> SUFFICES ASSUME StateInv, [Next]_vars PROVE StateInv'
    OBVIOUS
  <1>1. CASE \E t \in Threads : Step(t)
    BY <1>1, StateStep
  <1>2. ASSUME NEW t \in Threads, NEW c \in Clients, Arrive(t, c) PROVE StateInv'
    <2>1. Moved(t)
      BY <1>2, ArriveMoves
    <2> QED
      BY <1>2, <2>1 DEF Arrive, Moved, StateInv
  <1>3. ASSUME NEW c \in Clients, EditWhitelist(c) PROVE StateInv'
    <2>1. \A t \in Threads : ThreadOK(thr'[t])
      BY <1>3, EditWelcomes
    <2>2. DOMAIN thr' = Threads /\ thr' = [t \in Threads |-> thr'[t]]
      BY <1>3 DEF EditWhitelist
    <2> QED
      BY <1>3, <2>1, <2>2 DEF EditWhitelist, StateInv
  <1>4. CASE Tick
    BY <1>4 DEF Tick, StateInv
  <1>5. CASE UNCHANGED vars
    BY <1>5 DEF vars, StateInv
  <1> QED
    BY <1>1, <1>2, <1>3, <1>4, <1>5 DEF Next

-----------------------------------------------------------------------------
(* One session for one nonce: a nonce that is still there has made none,   *)
(* and a nonce that has been taken out is held by at most one login.       *)

Holds(t, n) == thr[t].pc \in {"login_policy", "grant"} /\ thr[t].nonce = n

NonceOK(n) ==
    /\ n \notin issued => nonces[n] = 0 /\ logins[n] = 0 /\ \A t \in Threads : ~Holds(t, n)
    /\ nonces[n] # 0 => logins[n] = 0 /\ \A t \in Threads : ~Holds(t, n)
    /\ \A t \in Threads : Holds(t, n) => logins[n] = 0
    /\ \A t, u \in Threads : Holds(t, n) /\ Holds(u, n) => t = u
    /\ logins[n] <= 1

NonceInv == \A n \in Nonces : NonceOK(n)

\* A step in which no login gets hold of a nonce.
LEMMA NobodyTakes ==
    ASSUME NonceInv, UNCHANGED <<nonces, issued, logins>>,
           \A t \in Threads, n \in Nonces : Holds(t, n)' => Holds(t, n)
    PROVE  NonceInv'
  BY DEF NonceInv, NonceOK

LEMMA NonceNext == StateInv /\ NonceInv /\ [Next]_vars => NonceInv'
  <1> SUFFICES ASSUME StateInv, NonceInv, [Next]_vars PROVE NonceInv'
    OBVIOUS
  <1>1. ASSUME NEW t \in Threads, Step(t) PROVE NonceInv'
    <2>0. /\ ThreadOK(thr[t]) /\ Moved(t)
          /\ \A u \in Threads \ {t}, n \in Nonces : Holds(u, n)' = Holds(u, n)
      BY <1>1, StateStep DEF StateInv, Moved, Holds
    <2>1. CASE Challenge(t)
      <3>1. PICK n \in Nonces \ issued :
               /\ nonces' = [nonces EXCEPT ![n] = now + NonceLife]
               /\ issued' = issued \cup {n}
        BY <2>1 DEF Challenge
      <3>2. thr'[t].pc = "idle" /\ logins' = logins
        BY <2>1, RespondMoves DEF Challenge
      <3>3. \A u \in Threads, k \in Nonces : Holds(u, k)' => Holds(u, k)
        BY <2>0, <3>2 DEF Holds
      <3>4. \A k \in Nonces \ {n} : nonces'[k] = nonces[k]
        BY <3>1 DEF StateInv
      <3>5. \A k \in Nonces : NonceOK(k)'
        BY <3>1, <3>2, <3>3, <3>4 DEF NonceInv, NonceOK
      <3> QED
        BY <3>5 DEF NonceInv
    <2>2. CASE Login(t)
      <3> DEFINE n == thr[t].nonce
      <3>0. n \in Nonces /\ thr[t].at \in Nat /\ thr[t].at >= 1
        BY <2>0, <2>2 DEF Login, ThreadOK, ThreadState
      <3>1. /\ nonces'[n] = 0 /\ \A k \in Nonces \ {n} : nonces'[k] = nonces[k]
            /\ issued' = issued /\ logins' = logins
        BY <2>2, <3>0 DEF Login, PoppedNonce, StateInv
      <3>2. CASE Respond(t) \/ GotoNow(t, "failure")
        <4>1. ~(thr'[t].pc \in {"login_policy", "grant"})
          <5>1. CASE Respond(t)
            BY <5>1, RespondMoves
          <5>2. CASE GotoNow(t, "failure")
            BY <5>2 DEF GotoNow, StateInv, ThreadOK, ThreadState
          <5> QED
            BY <3>2, <5>1, <5>2
        <4>2. \A u \in Threads, k \in Nonces : Holds(u, k)' => Holds(u, k)
          BY <2>0, <4>1 DEF Holds
        <4>3. \A k \in Nonces : NonceOK(k)'
          BY <3>0, <3>1, <4>2 DEF NonceInv, NonceOK
        <4> QED
          BY <4>3 DEF NonceInv
      <3>3. CASE ~(nonces[n] < thr[t].at) /\ Goto(t, "login_policy")
        <4>1. nonces[n] # 0
          BY <3>0, <3>3
        <4>2. n \in issued /\ logins[n] = 0 /\ \A u \in Threads : ~Holds(u, n)
          BY <3>0, <4>1 DEF NonceInv, NonceOK
        <4>3. thr'[t].nonce = n
          BY <3>3 DEF Goto, StateInv, ThreadOK, ThreadState
        <4>4. \A u \in Threads, k \in Nonces :
                 Holds(u, k)' => (Holds(u, k) /\ u # t) \/ (u = t /\ k = n)
          BY <2>0, <4>3 DEF Holds
        <4>5. ASSUME NEW k \in Nonces PROVE NonceOK(k)'
          BY <3>0, <3>1, <4>2, <4>4 DEF NonceInv, NonceOK
        <4> QED
          BY <4>5 DEF NonceInv
      <3> QED
        BY <2>2, <3>2, <3>3 DEF Login
    <2>3. CASE Grant(t)
      <3> DEFINE n == thr[t].nonce
      <3>0. n \in Nonces /\ Holds(t, n)
        BY <2>0, <2>3 DEF Grant, ThreadOK, Holds
      <3>1. /\ logins' = [logins EXCEPT ![n] = logins[n] + 1]
            /\ nonces' = nonces /\ issued' = issued /\ thr'[t].pc = "idle"
        BY <2>3, RespondMoves DEF Grant
      <3>2. logins'[n] = logins[n] + 1 /\ \A k \in Nonces \ {n} : logins'[k] = logins[k]
        BY <3>0, <3>1 DEF StateInv
      <3>3. logins[n] = 0 /\ nonces[n] = 0 /\ n \in issued
            /\ \A u \in Threads : Holds(u, n) => u = t
        BY <3>0 DEF NonceInv, NonceOK
      <3>4. \A u \in Threads, k \in Nonces : Holds(u, k)' => Holds(u, k) /\ u # t
        BY <2>0, <3>1 DEF Holds
      <3>5. ASSUME NEW k \in Nonces PROVE NonceOK(k)'
        BY <3>0, <3>1, <3>2, <3>3, <3>4 DEF NonceInv, NonceOK
      <3> QED
        BY <3>5 DEF NonceInv
    <2>4. CASE CheckLoginPolicy(t)
      <3>1. UNCHANGED <<nonces, issued, logins>> /\ thr[t].pc = "login_policy"
        BY <2>4 DEF CheckLoginPolicy
      <3>2. thr'[t].nonce = thr[t].nonce \/ ~(thr'[t].pc \in {"login_policy", "grant"})
        <4>1. CASE Respond(t)
          BY <4>1, RespondMoves
        <4>2. CASE Goto(t, "grant")
          BY <2>0, <4>2 DEF Goto, StateInv, ThreadOK, ThreadState
        <4> QED
          BY <2>4, <4>1, <4>2 DEF CheckLoginPolicy
      <3>3. \A u \in Threads, k \in Nonces : Holds(u, k)' => Holds(u, k)
        BY <2>0, <3>1, <3>2 DEF Holds
      <3> QED
        BY <3>1, <3>3, NobodyTakes
    <2>5. CASE CheckBlocked(t) \/ CheckRate(t) \/ RecordFailure(t) \/ CountFailures(t)
               \/ ReadSession(t) \/ CheckSessionPolicy(t) \/ SlideSession(t) \/ Handle(t)
      <3>1. UNCHANGED <<nonces, issued, logins>>
        BY <2>5 DEF CheckBlocked, CheckRate, RecordFailure, CountFailures, ReadSession,
           CheckSessionPolicy, SlideSession, Handle
      <3>2. \/ Respond(t)
            \/ \E pc \in Steps \ {"login_policy", "grant"} : Goto(t, pc) \/ GotoNow(t, pc)
        <4>1. thr[t].kind \in {"challenge", "login", "use"}
          BY <2>0 DEF ThreadOK, ThreadState
        <4>2. {"rate", "challenge", "login", "token", "count", "session_policy", "slide",
               "handler"} \subseteq Steps \ {"login_policy", "grant"}
          BY DEF Steps
        <4>3. CASE CheckRate(t)
          BY <4>1, <4>2, <4>3 DEF CheckRate
        <4> QED
          BY <2>5, <4>2, <4>3 DEF CheckBlocked, RecordFailure, CountFailures, ReadSession,
             CheckSessionPolicy, SlideSession, Handle
      <3>3. ~(thr'[t].pc \in {"login_policy", "grant"})
        <4>1. CASE Respond(t)
          BY <4>1, RespondMoves
        <4>2. ASSUME NEW pc \in Steps \ {"login_policy", "grant"}, Goto(t, pc) \/ GotoNow(t, pc)
              PROVE  thr'[t].pc = pc
          BY <2>0, <4>2 DEF Goto, GotoNow, StateInv, ThreadOK, ThreadState
        <4> QED
          BY <3>2, <4>1, <4>2
      <3>4. \A u \in Threads, k \in Nonces : Holds(u, k)' => Holds(u, k)
        BY <2>0, <3>3 DEF Holds
      <3> QED
        BY <3>1, <3>4, NobodyTakes
    <2> QED
      BY <1>1, <2>1, <2>2, <2>3, <2>4, <2>5 DEF Step
  <1>2. ASSUME NEW t \in Threads, NEW c \in Clients, Arrive(t, c) PROVE NonceInv'
    <2>1. \E r \in Requests : Moved(t) /\ thr'[t] = Arrived(r, c)
      BY <1>2, ArriveMoves
    <2>2. \A u \in Threads, k \in Nonces : Holds(u, k)' => Holds(u, k)
      BY <2>1 DEF Moved, Holds, Arrived
    <2> QED
      BY <1>2, <2>2, NobodyTakes DEF Arrive
  <1>3. ASSUME NEW c \in Clients, EditWhitelist(c) PROVE NonceInv'
    <2>1. \A u \in Threads, k \in Nonces : Holds(u, k)' => Holds(u, k)
      BY <1>3, EditWelcomes DEF Holds
    <2> QED
      BY <1>3, <2>1, NobodyTakes DEF EditWhitelist
  <1>4. CASE Tick
    BY <1>4, NobodyTakes DEF Tick, Holds
  <1>5. CASE UNCHANGED vars
    BY <1>5, NobodyTakes DEF vars, Holds
  <1> QED
    BY <1>1, <1>2, <1>3, <1>4, <1>5 DEF Next

LEMMA NonceInit == Init => NonceInv
  BY DEF Init, NonceInv, NonceOK, Holds, IdleThread

\* A nonce makes at most one session, for any number of threads that log in
\* with it and wherever they are interrupted: SlaveState.login takes the nonce
\* out before it compares anything.
THEOREM OneSessionPerNonce == Spec => []NonceUsedOnce
  <1>1. StateInv /\ NonceInv => NonceUsedOnce
    BY DEF NonceInv, NonceOK, NonceUsedOnce
  <1> QED
    BY <1>1, StateInit, StateNext, NonceInit, NonceNext, PTL DEF Spec

-----------------------------------------------------------------------------
(* The policy: a request whose client is admitted now has been welcome.    *)
(* The owner of a session does not change under a request that names it,   *)
(* because a nonce makes one session only.                                 *)

Owner(t) == Identity(thr[t].kind, thr[t].client, thr[t].nonce)

LetIn == {"slide", "handler", "grant"}

AdmissionOK(t) ==
    thr[t].pc # "idle" =>
        /\ thr[t].kind = "use" => logins[thr[t].nonce] > 0
        /\ Admits(listed[Owner(t)]) => thr[t].welcome
        /\ thr[t].pc \in LetIn => thr[t].welcome

AdmissionInv == \A t \in Threads : AdmissionOK(t)

\* A thread that is as before, or goes on with its request where its client
\* is admitted, keeps what the invariant says of it.
LEMMA AdmissionKept ==
    ASSUME NEW t \in Threads, AdmissionOK(t), listed' = listed, thr[t].pc # "idle",
           thr[t].kind = "use" => logins'[thr[t].nonce] > 0,
           thr'[t].kind = thr[t].kind, thr'[t].nonce = thr[t].nonce,
           thr'[t].client = thr[t].client, thr'[t].welcome = thr[t].welcome,
           thr[t].kind = "use" => sessions'[thr[t].nonce].client = sessions[thr[t].nonce].client,
           thr'[t].pc \in LetIn => thr[t].pc \in LetIn \/ Admits(listed[Owner(t)])
    PROVE  AdmissionOK(t)'
  <1>1. Owner(t)' = Owner(t)
    BY DEF Owner, Identity
  <1>2. Admits(listed[Owner(t)])' = Admits(listed[Owner(t)])
    BY <1>1, Zenon DEF Admits
  <1> QED
    BY <1>1, <1>2 DEF AdmissionOK

LEMMA AdmissionIdle ==
    ASSUME NEW t \in Threads, thr'[t].pc = "idle" PROVE AdmissionOK(t)'
  BY DEF AdmissionOK

\* What a step does to the sessions that requests name.
LEMMA SessionsKept ==
    ASSUME StateInv, NonceInv, AdmissionInv, NEW t \in Threads, Step(t), NEW u \in Threads,
           thr[u].pc # "idle", thr[u].kind = "use"
    PROVE  /\ logins'[thr[u].nonce] > 0
           /\ sessions'[thr[u].nonce].client = sessions[thr[u].nonce].client
  <1>1. thr[u].nonce \in Nonces /\ logins[thr[u].nonce] > 0
    BY DEF StateInv, ThreadOK, AdmissionInv, AdmissionOK
  <1>2. CASE Grant(t)
    <2> DEFINE n == thr[t].nonce
    <2>1. n \in Nonces /\ Holds(t, n)
      BY <1>2 DEF Grant, StateInv, ThreadOK, Holds
    <2>2. logins[n] = 0
      BY <2>1 DEF NonceInv, NonceOK
    <2>3. n # thr[u].nonce
      BY <1>1, <2>2
    <2> HIDE DEF n
    <2>4. logins'[thr[u].nonce] = logins[thr[u].nonce]
      BY <1>1, <1>2, <2>1, <2>3 DEF Grant, StateInv, n
    <2>5. sessions'[thr[u].nonce] = sessions[thr[u].nonce]
      BY <1>1, <1>2, <2>1, <2>3 DEF Grant, StateInv, n
    <2> QED
      BY <1>1, <2>4, <2>5
  <1>3. CASE SlideSession(t)
    <2>1. logins' = logins
      BY <1>3 DEF SlideSession
    <2>2. sessions'[thr[u].nonce].client = sessions[thr[u].nonce].client
      BY <1>1, <1>3 DEF SlideSession, StateInv, Session
    <2> QED
      BY <1>1, <2>1, <2>2
  <1>4. CASE ~Grant(t) /\ ~SlideSession(t)
    <2>1. logins' = logins /\ sessions' = sessions
      BY <1>4 DEF Step, CheckBlocked, CheckRate, Challenge, Login, RecordFailure, CountFailures,
         CheckLoginPolicy, ReadSession, CheckSessionPolicy, Handle
    <2> QED
      BY <1>1, <2>1
  <1> QED
    BY <1>2, <1>3, <1>4

\* How the thread that steps gets on.
LEMMA StepGoesOn ==
    ASSUME StateInv, NEW t \in Threads, Step(t)
    PROVE  \/ thr'[t].pc = "idle"
           \/ /\ thr'[t].kind = thr[t].kind /\ thr'[t].nonce = thr[t].nonce
              /\ thr'[t].client = thr[t].client /\ thr'[t].welcome = thr[t].welcome
              /\ thr'[t].pc \in LetIn => thr[t].pc \in LetIn \/ Admits(listed[Owner(t)])
  <1>0. ThreadOK(thr[t]) /\ thr[t].kind \in {"challenge", "login", "use"}
    BY DEF StateInv, ThreadOK, ThreadState
  <1>1. CASE Respond(t)
    BY <1>1, RespondMoves
  <1>2. ASSUME NEW pc \in Steps, Goto(t, pc) \/ GotoNow(t, pc),
               pc \in LetIn => thr[t].pc \in LetIn \/ Admits(listed[Owner(t)])
        PROVE  /\ thr'[t].kind = thr[t].kind /\ thr'[t].nonce = thr[t].nonce
               /\ thr'[t].client = thr[t].client /\ thr'[t].welcome = thr[t].welcome
               /\ thr'[t].pc \in LetIn => thr[t].pc \in LetIn \/ Admits(listed[Owner(t)])
    <2>1. /\ thr'[t].pc = pc /\ thr'[t].kind = thr[t].kind /\ thr'[t].nonce = thr[t].nonce
          /\ thr'[t].client = thr[t].client /\ thr'[t].welcome = thr[t].welcome
      BY <1>0, <1>2 DEF Goto, GotoNow, StateInv, ThreadOK, ThreadState
    <2> QED
      BY <1>2, <2>1
  <1>3. \/ Respond(t)
        \/ \E pc \in Steps : /\ Goto(t, pc) \/ GotoNow(t, pc)
                             /\ pc \in LetIn => thr[t].pc \in LetIn \/ Admits(listed[Owner(t)])
    <2>0. {"rate", "challenge", "login", "token", "count", "session_policy", "failure",
           "login_policy"} \subseteq Steps \ LetIn /\ LetIn \subseteq Steps
      BY DEF Steps, LetIn
    <2>1. CASE CheckRate(t)
      BY <1>0, <2>0, <2>1 DEF CheckRate
    <2>2. CASE CheckLoginPolicy(t)
      <3>1. Owner(t) = thr[t].client
        BY <1>0, <2>2 DEF CheckLoginPolicy, ThreadOK, Owner, Identity
      <3> QED
        BY <2>0, <2>2, <3>1 DEF CheckLoginPolicy, LetIn
    <2>3. CASE CheckSessionPolicy(t)
      <3>1. Owner(t) = sessions[thr[t].nonce].client
        BY <1>0, <2>3 DEF CheckSessionPolicy, ThreadOK, Owner, Identity
      <3> QED
        BY <2>0, <2>3, <3>1 DEF CheckSessionPolicy, SessionPolicyAdmits, LetIn
    <2>4. CASE SlideSession(t)
      BY <2>0, <2>4 DEF SlideSession, LetIn
    <2>5. CASE Login(t)
      BY <2>0, <2>5 DEF Login
    <2>6. CASE \/ CheckBlocked(t) \/ Challenge(t) \/ RecordFailure(t) \/ CountFailures(t)
               \/ Grant(t) \/ ReadSession(t) \/ Handle(t)
      BY <2>0, <2>6 DEF CheckBlocked, Challenge, RecordFailure, CountFailures, Grant,
         ReadSession, Handle
    <2> QED
      BY <2>1, <2>2, <2>3, <2>4, <2>5, <2>6 DEF Step
  <1> QED
    BY <1>1, <1>2, <1>3

LEMMA AdmissionNext == StateInv /\ NonceInv /\ AdmissionInv /\ [Next]_vars => AdmissionInv'
  <1> SUFFICES ASSUME StateInv, NonceInv, AdmissionInv, [Next]_vars,
                      NEW u \in Threads
               PROVE  AdmissionOK(u)'
    BY DEF AdmissionInv
  <1>0. AdmissionOK(u)
    BY DEF AdmissionInv
  <1>1. ASSUME NEW t \in Threads, Step(t) PROVE AdmissionOK(u)'
    <2>1. listed' = listed
      BY <1>1 DEF Step, CheckBlocked, CheckRate, Challenge, Login, RecordFailure, CountFailures,
         CheckLoginPolicy, Grant, ReadSession, CheckSessionPolicy, SlideSession, Handle
    <2>2. \/ thr'[u].pc = "idle"
          \/ /\ thr'[u].kind = thr[u].kind /\ thr'[u].nonce = thr[u].nonce
             /\ thr'[u].client = thr[u].client /\ thr'[u].welcome = thr[u].welcome
             /\ thr'[u].pc \in LetIn => thr[u].pc \in LetIn \/ Admits(listed[Owner(u)])
             /\ thr[u].pc # "idle"
      <3>1. CASE u = t
        <4>1. thr[u].pc # "idle"
          BY <1>1, <3>1 DEF Step, CheckBlocked, CheckRate, Challenge, Login, RecordFailure,
             CountFailures, CheckLoginPolicy, Grant, ReadSession, CheckSessionPolicy,
             SlideSession, Handle
        <4> QED
          BY <1>1, <3>1, <4>1, StepGoesOn
      <3>2. CASE u # t
        BY <1>1, <3>2, StateStep DEF Moved
      <3> QED
        BY <3>1, <3>2
    <2>3. thr[u].pc # "idle" /\ thr[u].kind = "use" =>
             /\ logins'[thr[u].nonce] > 0
             /\ sessions'[thr[u].nonce].client = sessions[thr[u].nonce].client
      BY <1>1, SessionsKept
    <2> QED
      BY <1>0, <2>1, <2>2, <2>3, AdmissionKept, AdmissionIdle
  <1>2. ASSUME NEW t \in Threads, NEW c \in Clients, Arrive(t, c) PROVE AdmissionOK(u)'
    <2>1. PICK r \in Requests : Moved(t) /\ thr'[t] = Arrived(r, c)
      BY <1>2, ArriveMoves
    <2>2. UNCHANGED <<listed, logins, sessions>>
      BY <1>2 DEF Arrive
    <2>3. CASE u = t
      <3>1. /\ thr'[u].pc = "blocked" /\ thr'[u].kind = r.kind /\ thr'[u].nonce = r.nonce
            /\ thr'[u].client = c
            /\ thr'[u].welcome = Admits(listed[Identity(r.kind, c, r.nonce)])
        BY <2>1, <2>3 DEF Arrived
      <3>2. Owner(u)' = Identity(r.kind, c, r.nonce)
        BY <2>2, <3>1 DEF Owner, Identity
      <3>3. Admits(listed[Owner(u)])' => thr'[u].welcome
        BY <2>2, <3>1, <3>2, Zenon DEF Admits
      <3>4. r.kind = "use" => logins[r.nonce] > 0
        BY DEF Requests
      <3> QED
        BY <2>2, <3>1, <3>3, <3>4 DEF AdmissionOK, LetIn
    <2>4. CASE u # t
      <3>1. thr'[u] = thr[u]
        BY <2>1, <2>4 DEF Moved
      <3> QED
        BY <1>0, <2>2, <3>1, AdmissionKept, AdmissionIdle DEF AdmissionOK
    <2> QED
      BY <2>3, <2>4
  <1>3. ASSUME NEW c \in Clients, EditWhitelist(c) PROVE AdmissionOK(u)'
    <2>1. /\ thr'[u].pc = thr[u].pc /\ thr'[u].kind = thr[u].kind /\ thr'[u].nonce = thr[u].nonce
          /\ thr'[u].client = thr[u].client /\ sessions' = sessions /\ logins' = logins
          /\ thr'[u].welcome = (thr[u].welcome \/ (thr[u].pc # "idle" /\ Admits(listed'[Owner(u)])))
      BY <1>3, EditWelcomes DEF Owner, EditWhitelist
    <2>2. Owner(u)' = Owner(u)
      BY <2>1 DEF Owner, Identity
    <2>3. thr[u].pc # "idle" /\ Admits(listed[Owner(u)])' => thr'[u].welcome
      BY <2>1, <2>2, Zenon DEF Admits
    <2>4. thr[u].welcome => thr'[u].welcome
      BY <2>1, Zenon
    <2> QED
      BY <1>0, <2>1, <2>3, <2>4 DEF AdmissionOK
  <1>4. CASE Tick \/ UNCHANGED vars
    <2>1. UNCHANGED <<thr, listed, logins, sessions>>
      BY <1>4 DEF Tick, vars
    <2> QED
      BY <1>0, <2>1, AdmissionKept, AdmissionIdle DEF AdmissionOK
  <1> QED
    BY <1>1, <1>2, <1>3, <1>4 DEF Next

LEMMA AdmissionInit == Init => AdmissionInv
  <1>1. IdleThread.pc = "idle"
    BY DEF IdleThread
  <1> QED
    BY <1>1 DEF Init, AdmissionInv, AdmissionOK

\* No handler is entered and no session made for a client that the policy
\* admitted at no moment since the request arrived, however the whitelist is
\* edited between the steps of the request.
THEOREM PolicyHolds == Spec => []DeniedClientsStayOut
  <1>1. AdmissionInv => DeniedClientsStayOut
    BY DEF AdmissionInv, AdmissionOK, DeniedClientsStayOut, LetIn
  <1> QED
    BY <1>1, StateInit, StateNext, NonceInit, NonceNext, AdmissionInit, AdmissionNext, PTL
       DEF Spec

-----------------------------------------------------------------------------
(* The buckets hold times that have come, and no more than their limit.    *)

LEMMA SmallestExists ==
    ASSUME NEW S \in SUBSET Nat, S # {}
    PROVE  \E x \in S : \A y \in S : x <= y
  <1> DEFINE R == OpToRel(<, Nat)
  <1>1. \A x, y \in Nat : y < x => <<y, x>> \in R
    <2> SUFFICES ASSUME NEW x \in Nat, NEW y \in Nat, y < x PROVE <<y, x>> \in R
      OBVIOUS
    <2>1. <<y, x>> \in Nat \X Nat /\ <<y, x>>[1] = y /\ <<y, x>>[2] = x
      OBVIOUS
    <2> QED BY <2>1, Zenon DEF OpToRel
  <1>2. IsWellFoundedOn(R, Nat)
    BY NatLessThanWellFounded
  <1> HIDE DEF R
  <1>3. PICK x \in S : \A y \in S : ~(<<y, x>> \in R)
    BY <1>2, WFMin
  <1>4. ASSUME NEW y \in S
        PROVE  x <= y
    <2>1. x \in Nat /\ y \in Nat /\ ~(<<y, x>> \in R)
      BY <1>3
    <2>2. ~(y < x)
      BY <1>1, <2>1, Zenon
    <2> QED BY <2>1, <2>2
  <1> QED BY <1>3, <1>4

Bucket == Seq(1 .. MaxTime)

\* What is left of a bucket: nothing when every event is too old, and otherwise
\* its rear, from the first event that is not.
LEMMA TrimShape ==
    ASSUME NEW b \in Bucket, NEW t
    PROVE  \/ /\ Trim(b, t) = <<>>
              /\ \A k \in 1 .. Len(b) : ~(b[k] + Window >= t)
           \/ \E m \in 1 .. Len(b) :
                 /\ b[m] + Window >= t
                 /\ \A k \in 1 .. Len(b) : b[k] + Window >= t => m <= k
                 /\ Trim(b, t) \in Bucket /\ Len(Trim(b, t)) = Len(b) - m + 1
                 /\ \A i \in 1 .. Len(b) - m + 1 : Trim(b, t)[i] = b[m + i - 1]
  <1> DEFINE live == {k \in 1 .. Len(b) : b[k] + Window >= t}
  <1>1. CASE live = {}
    <2>1. Trim(b, t) = <<>>
      BY <1>1 DEF Trim
    <2> QED BY <1>1, <2>1
  <1>2. CASE live # {}
    <2>1. live \in SUBSET Nat /\ live \subseteq 1 .. Len(b)
      BY DEF Bucket
    <2> HIDE DEF live
    <2>2. \E x \in live : \A y \in live : x <= y
      BY <1>2, <2>1, SmallestExists
    <2>3. Min(live) \in live /\ \A y \in live : Min(live) <= y
      BY <2>2 DEF Min
    <2>4. Trim(b, t) = SubSeq(b, Min(live), Len(b))
      BY <1>2 DEF Trim, live
    <2> DEFINE m == Min(live)
    <2>5. m \in 1 .. Len(b) /\ b[m] + Window >= t
      BY <2>1, <2>3 DEF live
    <2>6. \A k \in 1 .. Len(b) : b[k] + Window >= t => m <= k
      BY <2>3 DEF live
    <2> HIDE DEF m
    <2> DEFINE n == Len(b)
               T == 1 .. MaxTime
    <2>7. n \in Nat /\ \A i \in 1 .. n : b[i] \in T
      BY LenProperties DEF Bucket
    <2>8. m \in 1 .. n
      BY <2>5
    <2> HIDE DEF n, T
    <2>9. m \in Int /\ n \in Int /\ m <= n /\ \A i \in m .. n : b[i] \in T
      BY <2>7, <2>8
    <2>10. /\ SubSeq(b, m, n) \in Seq(T) /\ Len(SubSeq(b, m, n)) = IF m <= n THEN n - m + 1 ELSE 0
           /\ \A i \in 1 .. n - m + 1 : SubSeq(b, m, n)[i] = b[m + i - 1]
      BY <2>9, SubSeqProperties
    <2>11. Trim(b, t) = SubSeq(b, m, n)
      BY <2>4 DEF m, n
    <2>12. /\ Trim(b, t) \in Bucket /\ Len(Trim(b, t)) = Len(b) - m + 1
           /\ \A i \in 1 .. Len(b) - m + 1 : Trim(b, t)[i] = b[m + i - 1]
      BY <2>9, <2>10, <2>11 DEF n, T, Bucket
    <2> QED BY <2>5, <2>6, <2>12
  <1> QED BY <1>1, <1>2

LEMMA TrimOK ==
    ASSUME NEW b \in Bucket, NEW t
    PROVE  Trim(b, t) \in Bucket /\ Len(Trim(b, t)) <= Len(b)
  <1>1. <<>> \in Bucket /\ Len(<<>>) = 0 /\ Len(b) \in Nat
    BY DEF Bucket
  <1> QED BY <1>1, TrimShape

BucketsOK ==
    /\ events \in [Clients -> [Limiters -> Bucket]]
    /\ \A c \in Clients, l \in Limiters : Len(events[c][l]) <= Limit[l]

TimeInv ==
    /\ now <= MaxTime /\ BucketsOK
    /\ blocked \in [Clients -> Nat]
    /\ listed \in [Clients -> {"allowed", "denied", "unlisted"}]
    /\ late \in [Clients -> Nat] /\ \A c \in Clients : late[c] <= now
    /\ \A t \in Threads : thr[t].pc # "idle" => thr[t].at \in 1 .. now

\* A bucket that is no longer than its limit takes the place of another.
LEMMA BucketChanges ==
    ASSUME BucketsOK, NEW c \in Clients, NEW l \in Limiters, NEW b \in Bucket,
           Len(b) <= Limit[l], events' = [events EXCEPT ![c][l] = b]
    PROVE  BucketsOK'
  <1>1. events' \in [Clients -> [Limiters -> Bucket]]
    BY DEF BucketsOK
  <1>2. ASSUME NEW d \in Clients, NEW m \in Limiters
        PROVE  Len(events'[d][m]) <= Limit[m]
    <2>1. events'[d][m] = IF d = c /\ m = l THEN b ELSE events[d][m]
      BY DEF BucketsOK
    <2> QED BY <2>1 DEF BucketsOK
  <1> QED BY <1>1, <1>2 DEF BucketsOK

LEMMA AllowOK ==
    ASSUME BucketsOK, NEW c \in Clients, NEW l \in Limiters, NEW t \in 1 .. MaxTime, Allow(c, l, t)
    PROVE  BucketsOK'
  <1> DEFINE b == Trim(events[c][l], t)
             new == IF Allowed(c, l, t) THEN Append(b, t) ELSE b
  <1>1. events[c][l] \in Bucket /\ Len(events[c][l]) <= Limit[l]
    BY DEF BucketsOK
  <1>2. b \in Bucket /\ Len(b) <= Limit[l] /\ Len(b) \in Nat /\ Limit[l] \in Nat
    BY <1>1, TrimOK, AccessAssumption DEF Bucket
  <1>3. Allowed(c, l, t) <=> ~(Len(b) >= Limit[l])
    BY DEF Allowed, Full
  <1>4. events' = [events EXCEPT ![c][l] = new]
    BY DEF Allow
  <1> HIDE DEF b
  <1>5. new \in Bucket /\ Len(new) <= Limit[l]
    <2>1. Append(b, t) \in Bucket /\ Len(Append(b, t)) = Len(b) + 1
      BY <1>2, AppendProperties DEF Bucket
    <2> QED BY <1>2, <1>3, <2>1
  <1> HIDE DEF new
  <1> QED BY <1>4, <1>5, BucketChanges

\* A thread in the middle of a request has a time that has come.
LEMMA TimeStep ==
    ASSUME StateInv, TimeInv, NEW t \in Threads, Step(t)
    PROVE  thr'[t].pc # "idle" => thr'[t].at \in 1 .. now
  <1>0. thr[t] \in ThreadState /\ t \in DOMAIN thr /\ now \in Nat \ {0}
    BY DEF StateInv, ThreadOK
  <1>1. thr[t].pc # "idle"
    BY DEF Step, CheckBlocked, CheckRate, Challenge, Login, RecordFailure, CountFailures,
           CheckLoginPolicy, Grant, ReadSession, CheckSessionPolicy, SlideSession, Handle
  <1>2. Respond(t) \/ \E pc \in Steps : Goto(t, pc) \/ GotoNow(t, pc)
    BY <1>0 DEF Step, CheckBlocked, CheckRate, Challenge, Login, RecordFailure, CountFailures,
           CheckLoginPolicy, Grant, ReadSession, CheckSessionPolicy, SlideSession, Handle,
           Steps, ThreadState
  <1>3. CASE Respond(t)
    BY <1>0, <1>3 DEF Respond, IdleThread
  <1>4. ASSUME NEW pc \in Steps, Goto(t, pc)
        PROVE  thr'[t].at = thr[t].at
    BY <1>0, <1>4 DEF Goto, ThreadState
  <1>5. ASSUME NEW pc \in Steps, GotoNow(t, pc)
        PROVE  thr'[t].at = now
    BY <1>0, <1>5 DEF GotoNow, ThreadState
  <1> QED BY <1>0, <1>1, <1>2, <1>3, <1>4, <1>5 DEF TimeInv

LEMMA StepTimes ==
    ASSUME StateInv, TimeInv, NEW t \in Threads, Step(t)
    PROVE  TimeInv'
  <1>0. /\ thr[t] \in ThreadState /\ now \in 1 .. MaxTime /\ UNCHANGED <<now, listed, late>>
        /\ thr[t].pc # "idle" => thr[t].at \in 1 .. MaxTime
    <2>1. UNCHANGED <<now, listed, late>>
      BY DEF Step, CheckBlocked, CheckRate, Challenge, Login, RecordFailure, CountFailures,
             CheckLoginPolicy, Grant, ReadSession, CheckSessionPolicy, SlideSession, Handle
    <2> QED BY <2>1, AccessAssumption DEF StateInv, ThreadOK, TimeInv
  <1>1. thr[t].client \in Clients /\ thr[t].at \in Nat
    BY <1>0 DEF ThreadState
  <1>2. \A u \in Threads : thr'[u].pc # "idle" => thr'[u].at \in 1 .. now
    BY TimeStep, StateStep DEF Moved, TimeInv
  <1>3. BucketsOK' /\ blocked' \in [Clients -> Nat]
    <2>1. CASE CheckRate(t)
      <3>1. LimiterOf(thr[t].kind) \in Limiters
        BY DEF LimiterOf, Limiters
      <3>2. Allow(thr[t].client, LimiterOf(thr[t].kind), thr[t].at) /\ thr[t].at \in 1 .. MaxTime
            /\ UNCHANGED blocked
        BY <1>0, <2>1 DEF CheckRate
      <3> QED BY <1>1, <3>1, <3>2, AllowOK DEF TimeInv
    <2>2. CASE RecordFailure(t)
      <3>1. "login_failures" \in Limiters
        BY DEF Limiters
      <3>2. Allow(thr[t].client, "login_failures", thr[t].at) /\ thr[t].at \in 1 .. MaxTime
            /\ UNCHANGED blocked
        BY <1>0, <2>2 DEF RecordFailure
      <3> QED BY <1>1, <3>1, <3>2, AllowOK DEF TimeInv
    <2>3. CASE CountFailures(t)
      <3> DEFINE c == thr[t].client
                 b == Trim(events[c]["login_failures"], thr[t].at)
      <3>1. /\ events' = [events EXCEPT ![c]["login_failures"] = b]
            /\ blocked' = blocked \/ blocked' = [blocked EXCEPT ![c] = BlockedUntil(c, thr[t].at)]
        BY <2>3 DEF CountFailures
      <3>2. "login_failures" \in Limiters
        BY DEF Limiters
      <3>3. b \in Bucket /\ Len(b) <= Limit["login_failures"]
        <4>1. /\ events[c]["login_failures"] \in Bucket
              /\ Len(events[c]["login_failures"]) <= Limit["login_failures"]
          BY <1>1, <3>2 DEF TimeInv, BucketsOK
        <4>2. b \in Bucket /\ Len(b) <= Len(events[c]["login_failures"])
          BY <4>1, TrimOK
        <4> QED BY <3>2, <4>1, <4>2, AccessAssumption DEF Bucket
      <3> HIDE DEF b
      <3>4. BucketsOK'
        BY <1>1, <3>1, <3>2, <3>3, BucketChanges DEF TimeInv
      <3>5. BlockedUntil(c, thr[t].at) \in Nat
        BY <1>1, AccessAssumption DEF BlockedUntil
      <3> QED BY <1>1, <3>1, <3>4, <3>5 DEF TimeInv
    <2>4. CASE CheckBlocked(t)
      BY <1>1, <2>4 DEF CheckBlocked, TimeInv, BucketsOK
    <2>5. CASE ~(CheckRate(t) \/ RecordFailure(t) \/ CountFailures(t) \/ CheckBlocked(t))
      <3>1. UNCHANGED <<events, blocked>>
        BY <2>5 DEF Step, Challenge, Login, CheckLoginPolicy, Grant, ReadSession,
                    CheckSessionPolicy, SlideSession, Handle
      <3> QED BY <3>1 DEF TimeInv, BucketsOK
    <2> QED BY <2>1, <2>2, <2>3, <2>4, <2>5
  <1> QED BY <1>0, <1>2, <1>3 DEF TimeInv

LEMMA TimeNext == StateInv /\ TimeInv /\ [Next]_vars => TimeInv'
  <1> SUFFICES ASSUME StateInv, TimeInv, [Next]_vars PROVE TimeInv'
    OBVIOUS
  <1>1. ASSUME NEW t \in Threads, NEW c \in Clients, Arrive(t, c) PROVE TimeInv'
    <2>1. UNCHANGED <<now, events, blocked, listed, late>>
      BY <1>1 DEF Arrive
    <2>2. PICK r \in Requests : Moved(t) /\ thr'[t] = Arrived(r, c)
      BY <1>1, ArriveMoves
    <2>3. thr'[t].at = now
      BY <2>2 DEF Arrived
    <2>4. \A u \in Threads : thr'[u].pc # "idle" => thr'[u].at \in 1 .. now
      BY <2>2, <2>3 DEF Moved, TimeInv, StateInv
    <2> QED BY <2>1, <2>4 DEF TimeInv, BucketsOK
  <1>2. ASSUME NEW c \in Clients, EditWhitelist(c) PROVE TimeInv'
    <2>1. UNCHANGED <<now, events, blocked, late>>
          /\ listed' \in [Clients -> {"allowed", "denied", "unlisted"}]
      BY <1>2 DEF EditWhitelist
    <2>2. ASSUME NEW t \in Threads
          PROVE  thr'[t].pc = thr[t].pc /\ thr'[t].at = thr[t].at
      BY <1>2, <2>2 DEF EditWhitelist, StateInv, ThreadOK, ThreadState
    <2> QED BY <2>1, <2>2 DEF TimeInv, BucketsOK
  <1>3. CASE Tick
    <2>1. now \in Nat /\ now' = now + 1 /\ now < MaxTime
          /\ UNCHANGED <<events, blocked, listed, thr>>
      BY <1>3 DEF Tick, StateInv
    <2>2. \A t \in Threads : thr[t].pc # "idle" => thr[t].at \in 1 .. now'
      BY <2>1 DEF TimeInv
    <2>3. now' <= MaxTime
      BY <2>1, AccessAssumption
    <2>4. late' \in [Clients -> Nat] /\ \A c \in Clients : late'[c] <= now'
      BY <1>3, <2>1 DEF Tick, TimeInv
    <2> QED BY <2>1, <2>2, <2>3, <2>4 DEF TimeInv, BucketsOK
  <1>4. CASE UNCHANGED vars
    BY <1>4 DEF vars, TimeInv, BucketsOK
  <1> QED BY <1>1, <1>2, <1>3, <1>4, StepTimes DEF Next

LEMMA TimeInit == Init => TimeInv
  <1> SUFFICES ASSUME Init PROVE TimeInv
    OBVIOUS
  <1>1. <<>> \in Bucket /\ Len(<<>>) = 0
    BY DEF Bucket
  <1>2. BucketsOK
    <2>1. \A c \in Clients, l \in Limiters : events[c][l] = <<>>
      BY DEF Init
    <2>2. events \in [Clients -> [Limiters -> Bucket]]
      BY <1>1 DEF Init
    <2> QED BY <1>1, <2>1, <2>2, AccessAssumption DEF BucketsOK
  <1>3. now <= MaxTime
    BY AccessAssumption DEF Init
  <1>4. /\ blocked \in [Clients -> Nat] /\ listed \in [Clients -> {"allowed", "denied", "unlisted"}]
        /\ late \in [Clients -> Nat] /\ \A c \in Clients : late[c] <= now
    BY DEF Init
  <1>5. \A t \in Threads : thr[t].pc = "idle"
    BY DEF Init, IdleThread
  <1> QED BY <1>2, <1>3, <1>4, <1>5 DEF TimeInv

\* Every variable keeps its type, and no bucket of a limiter grows beyond its
\* limit, however the times of concurrent threads lie behind each other.
THEOREM TypeInvariant == Spec => []TypeOK
  <1>1. StateInv /\ TimeInv => TypeOK
    <2> SUFFICES ASSUME StateInv, TimeInv PROVE TypeOK
      OBVIOUS
    <2>1. now \in 1 .. MaxTime
      BY AccessAssumption DEF StateInv, TimeInv
    <2>2. thr \in [Threads -> ThreadState]
      BY DEF StateInv, ThreadOK
    <2> QED BY <2>1, <2>2 DEF TypeOK, StateInv, TimeInv, BucketsOK, Bucket
  <1> QED
    BY <1>1, StateInit, StateNext, TimeInit, TimeNext, PTL DEF Spec

-----------------------------------------------------------------------------
(* Counting the entries of a sequence, and what trimming leaves of them.   *)

\* A bucket that has just been trimmed stays as long as it is.
LEMMA TrimAgain ==
    ASSUME NEW b \in Bucket, NEW t \in Nat
    PROVE  Len(Trim(Trim(b, t), t)) = Len(Trim(b, t))
  <1> DEFINE r == Trim(b, t)
  <1>1. r \in Bucket /\ Len(r) \in Nat /\ Len(b) \in Nat
    BY TrimOK DEF Bucket
  <1>2. CASE r = <<>>
    <2>1. Len(r) = 0
      BY <1>2
    <2> HIDE DEF r
    <2>2. Len(Trim(r, t)) <= Len(r) /\ Len(Trim(r, t)) \in Nat
      BY <1>1, TrimOK DEF Bucket
    <2> QED BY <2>1, <2>2 DEF r
  <1>3. CASE r # <<>>
    <2>1. PICK m \in 1 .. Len(b) :
             /\ b[m] + Window >= t /\ Len(r) = Len(b) - m + 1
             /\ \A i \in 1 .. Len(b) - m + 1 : r[i] = b[m + i - 1]
      BY <1>3, TrimShape
    <2>2. 1 \in 1 .. Len(r) /\ r[1] + Window >= t
      <3>1. 1 \in 1 .. Len(b) - m + 1 /\ m + 1 - 1 = m
        BY <1>1
      <3> HIDE DEF r
      <3> QED BY <2>1, <3>1
    <2> HIDE DEF r
    <2>3. PICK j \in 1 .. Len(r) :
             /\ \A k \in 1 .. Len(r) : r[k] + Window >= t => j <= k
             /\ Len(Trim(r, t)) = Len(r) - j + 1
      BY <1>1, <2>2, TrimShape
    <2>4. j = 1
      BY <1>1, <2>2, <2>3
    <2> QED BY <1>1, <2>3, <2>4 DEF r
  <1> QED BY <1>2, <1>3

\* How many entries of a sequence lie in a set.
Count(S, q) == Cardinality({k \in 1 .. Len(q) : q[k] \in S})

LEMMA CountBounds ==
    ASSUME NEW S, NEW q, Len(q) \in Nat
    PROVE  /\ IsFiniteSet({k \in 1 .. Len(q) : q[k] \in S})
           /\ Count(S, q) \in Nat /\ Count(S, q) <= Len(q)
           /\ (\A k \in 1 .. Len(q) : q[k] \notin S) => Count(S, q) = 0
  <1> DEFINE D == {k \in 1 .. Len(q) : q[k] \in S}
  <1>1. IsFiniteSet(1 .. Len(q)) /\ Cardinality(1 .. Len(q)) = Len(q)
    BY FS_Interval, SMTT(30)
  <1>2. D \in SUBSET (1 .. Len(q))
    OBVIOUS
  <1>3. (\A k \in 1 .. Len(q) : q[k] \notin S) => D = {}
    OBVIOUS
  <1> HIDE DEF D
  <1>4. IsFiniteSet(D) /\ Cardinality(D) <= Len(q) /\ Cardinality(D) \in Nat
    BY <1>1, <1>2, FS_Subset, FS_CardinalityType
  <1> QED BY <1>3, <1>4, FS_EmptySet DEF D, Count

LEMMA CountAppend ==
    ASSUME NEW S, NEW T, NEW q \in Seq(T), NEW x \in T
    PROVE  Count(S, Append(q, x)) = Count(S, q) + IF x \in S THEN 1 ELSE 0
  <1> DEFINE a == Append(q, x)
             D == {k \in 1 .. Len(q) : q[k] \in S}
             E == {k \in 1 .. Len(a) : a[k] \in S}
  <1>1. /\ Len(q) \in Nat /\ Len(a) = Len(q) + 1 /\ a[Len(q) + 1] = x
        /\ \A i \in 1 .. Len(q) : a[i] = q[i]
    BY AppendProperties
  <1> HIDE DEF a
  <1>2. IsFiniteSet(D) /\ Cardinality(D) \in Nat
    BY <1>1, CountBounds, FS_CardinalityType
  <1>3. Len(q) + 1 \notin D
    BY <1>1
  <1>4. 1 .. Len(q) + 1 = (1 .. Len(q)) \cup {Len(q) + 1}
    BY <1>1
  <1>5. x \in S => E = D \cup {Len(q) + 1}
    BY <1>1, <1>4
  <1>6. x \notin S => E = D
    BY <1>1, <1>4
  <1> HIDE DEF D, E
  <1>7. Cardinality(E) = Cardinality(D) + IF x \in S THEN 1 ELSE 0
    BY <1>2, <1>3, <1>5, <1>6, FS_AddElement
  <1> QED BY <1>7 DEF Count, D, E, a

\* Trimming keeps what happened within the window.
LEMMA TrimKeeps ==
    ASSUME NEW b \in Bucket, NEW t \in Nat, NEW s \in Nat, t <= s + Window
    PROVE  Count(s .. MaxTime, b) <= Count(s .. MaxTime, Trim(b, t))
  <1> DEFINE S == s .. MaxTime
             r == Trim(b, t)
             D == {k \in 1 .. Len(b) : b[k] \in S}
             E == {k \in 1 .. Len(r) : r[k] \in S}
  <1>1. Len(b) \in Nat /\ Len(r) \in Nat /\ \A k \in 1 .. Len(b) : b[k] \in Nat
    <2>1. r \in Bucket
      BY TrimOK
    <2> HIDE DEF r
    <2>2. Len(b) \in Nat /\ Len(r) \in Nat /\ \A k \in 1 .. Len(b) : b[k] \in 1 .. MaxTime
      BY <2>1, LenProperties DEF Bucket
    <2> QED BY <2>2
  <1>2. IsFiniteSet(E) /\ Count(S, r) \in Nat
    BY <1>1, CountBounds
  <1>3. \A k \in D : b[k] + Window >= t
    BY <1>1, AccessAssumption
  <1>4. CASE \A k \in 1 .. Len(b) : ~(b[k] + Window >= t)
    <2>1. Count(S, b) = 0
      BY <1>1, <1>3, <1>4, CountBounds
    <2> QED BY <1>2, <2>1
  <1>5. CASE ~\A k \in 1 .. Len(b) : ~(b[k] + Window >= t)
    <2>1. PICK m \in 1 .. Len(b) :
             /\ \A k \in 1 .. Len(b) : b[k] + Window >= t => m <= k
             /\ Len(r) = Len(b) - m + 1
             /\ \A i \in 1 .. Len(b) - m + 1 : r[i] = b[m + i - 1]
      BY <1>5, TrimShape, SMTT(30)
    <2> DEFINE f == [k \in D |-> k - m + 1]
    <2> HIDE DEF r
    <2>2. \A k \in D : f[k] \in E
      <3> SUFFICES ASSUME NEW k \in D PROVE k - m + 1 \in E
        OBVIOUS
      <3>1. m <= k /\ k \in 1 .. Len(b) /\ m \in 1 .. Len(b) /\ b[k] \in S
        BY <1>3, <2>1
      <3>2. k - m + 1 \in 1 .. Len(b) - m + 1 /\ m + (k - m + 1) - 1 = k
        BY <1>1, <3>1
      <3> QED BY <2>1, <3>1, <3>2
    <2>3. \A j, k \in D : f[j] = f[k] => j = k
      BY <1>1
    <2>4. f \in [D -> E]
      BY <2>2, Zenon
    <2> HIDE DEF f, D, E
    <2>5. f \in Injection(D, E)
      BY <2>3, <2>4 DEF Injection, IsInjective
    <2>6. Cardinality(D) <= Cardinality(E)
      BY <1>2, <2>5, FS_Injection
    <2> QED BY <2>6 DEF Count, D, E, r
  <1> QED BY <1>4, <1>5

-----------------------------------------------------------------------------
(* What a step moves: the threads of a client that have compared a wrong   *)
(* proof and not recorded it, those that have not counted it, and the      *)
(* logins that are past the block.                                         *)

L == Limit["login_failures"]
Failures(c) == events[c]["login_failures"]
Failing(c) == {t \in Threads : thr[t].client = c /\ thr[t].pc = "failure"}
Past(c) ==
    {t \in Threads : thr[t].client = c /\ thr[t].kind = "login" /\ thr[t].pc \in {"rate", "login"}}

\* Sets of threads are finite, and threads that have yet to count are past nothing.
LEMMA SetsCounted ==
    ASSUME NEW U \in SUBSET Threads, NEW P \in SUBSET Threads, NEW F \in SUBSET U, U \cap P = {}
    PROVE  /\ IsFiniteSet(F) /\ IsFiniteSet(U) /\ IsFiniteSet(P)
           /\ Cardinality(F) \in Nat /\ Cardinality(U) \in Nat
           /\ Cardinality(P) \in Nat /\ Cardinality(Threads) \in Nat
           /\ Cardinality(F) <= Cardinality(U)
           /\ Cardinality(U) + Cardinality(P) <= Cardinality(Threads)
  <1>1. U \cup P \in SUBSET Threads
    OBVIOUS
  <1>2. IsFiniteSet(Threads)
    BY AccessAssumption
  <1>3. IsFiniteSet(U) /\ IsFiniteSet(P) /\ IsFiniteSet(U \cup P)
        /\ Cardinality(U \cup P) <= Cardinality(Threads)
    BY <1>1, <1>2, FS_Subset
  <1>4. IsFiniteSet(F) /\ Cardinality(F) <= Cardinality(U)
    BY <1>3, FS_Subset
  <1>5. Cardinality(U \cap P) = 0
    BY FS_EmptySet
  <1>6. Cardinality(U \cup P) = Cardinality(U) + Cardinality(P) - Cardinality(U \cap P)
    BY <1>3, FS_Union
  <1>7. /\ Cardinality(F) \in Nat /\ Cardinality(U) \in Nat /\ Cardinality(P) \in Nat
        /\ Cardinality(Threads) \in Nat /\ Cardinality(U \cup P) \in Nat
    BY <1>2, <1>3, <1>4, FS_CardinalityType
  <1> QED BY <1>2, <1>3, <1>4, <1>5, <1>6, <1>7

LEMMA ThreadsCounted ==
    ASSUME NEW c
    PROVE  /\ IsFiniteSet(Failing(c)) /\ IsFiniteSet(Uncounted(c)) /\ IsFiniteSet(Past(c))
           /\ Cardinality(Failing(c)) \in Nat /\ Cardinality(Uncounted(c)) \in Nat
           /\ Cardinality(Past(c)) \in Nat /\ Cardinality(Threads) \in Nat
           /\ Cardinality(Failing(c)) <= Cardinality(Uncounted(c))
           /\ Cardinality(Uncounted(c)) + Cardinality(Past(c)) <= Cardinality(Threads)
  <1>1. /\ Uncounted(c) \in SUBSET Threads /\ Past(c) \in SUBSET Threads
        /\ Failing(c) \in SUBSET Uncounted(c) /\ Uncounted(c) \cap Past(c) = {}
    BY DEF Uncounted, Failing, Past
  <1> QED BY <1>1, SetsCounted

LEMMA ThreadsAfter ==
    ASSUME NEW c
    PROVE  /\ Cardinality(Failing(c)') \in Nat /\ Cardinality(Uncounted(c)') \in Nat
           /\ Cardinality(Past(c)') \in Nat
           /\ Cardinality(Failing(c)') <= Cardinality(Uncounted(c)')
           /\ Cardinality(Uncounted(c)') + Cardinality(Past(c)') <= Cardinality(Threads)
  <1>1. /\ Uncounted(c)' \in SUBSET Threads /\ Past(c)' \in SUBSET Threads
        /\ Failing(c)' \in SUBSET Uncounted(c)' /\ Uncounted(c)' \cap Past(c)' = {}
    BY DEF Uncounted, Failing, Past
  <1> QED BY <1>1, SetsCounted

\* The thread after the three ways to go on.
LEMMA Went ==
    ASSUME StateInv, NEW t \in Threads
    PROVE  /\ Respond(t) => thr'[t].pc = "idle"
           /\ \A pc : Goto(t, pc) => /\ thr'[t].pc = pc /\ thr'[t].client = thr[t].client
                                     /\ thr'[t].kind = thr[t].kind /\ thr'[t].at = thr[t].at
           /\ \A pc : GotoNow(t, pc) => /\ thr'[t].pc = pc /\ thr'[t].client = thr[t].client
                                        /\ thr'[t].kind = thr[t].kind /\ thr'[t].at = now
  <1>1. thr[t] \in ThreadState /\ t \in DOMAIN thr
    BY DEF StateInv, ThreadOK
  <1>2. Respond(t) => thr'[t].pc = "idle"
    BY <1>1 DEF Respond, IdleThread
  <1>3. ASSUME NEW pc, Goto(t, pc)
        PROVE  /\ thr'[t].pc = pc /\ thr'[t].client = thr[t].client
               /\ thr'[t].kind = thr[t].kind /\ thr'[t].at = thr[t].at
    BY <1>1, <1>3 DEF Goto, ThreadState
  <1>4. ASSUME NEW pc, GotoNow(t, pc)
        PROVE  /\ thr'[t].pc = pc /\ thr'[t].client = thr[t].client
               /\ thr'[t].kind = thr[t].kind /\ thr'[t].at = now
    BY <1>1, <1>4 DEF GotoNow, ThreadState
  <1> QED BY <1>2, <1>3, <1>4

\* The sets after t has moved.
LEMMA SetsChange ==
    ASSUME NEW t \in Threads, Moved(t), NEW c
    PROVE  /\ IF thr'[t].client = c /\ thr'[t].pc = "failure"
              THEN Failing(c)' = Failing(c) \cup {t} ELSE Failing(c)' = Failing(c) \ {t}
           /\ IF thr'[t].client = c /\ thr'[t].pc \in {"failure", "count"}
              THEN Uncounted(c)' = Uncounted(c) \cup {t} ELSE Uncounted(c)' = Uncounted(c) \ {t}
           /\ IF thr'[t].client = c /\ thr'[t].kind = "login" /\ thr'[t].pc \in {"rate", "login"}
              THEN Past(c)' = Past(c) \cup {t} ELSE Past(c)' = Past(c) \ {t}
  <1>1. \A u \in Threads : u # t => thr'[u] = thr[u]
    BY DEF Moved
  <1>2. IF thr'[t].client = c /\ thr'[t].pc = "failure"
        THEN Failing(c)' = Failing(c) \cup {t} ELSE Failing(c)' = Failing(c) \ {t}
    BY <1>1 DEF Failing
  <1>3. IF thr'[t].client = c /\ thr'[t].pc \in {"failure", "count"}
        THEN Uncounted(c)' = Uncounted(c) \cup {t} ELSE Uncounted(c)' = Uncounted(c) \ {t}
    BY <1>1 DEF Uncounted
  <1>4. IF thr'[t].client = c /\ thr'[t].kind = "login" /\ thr'[t].pc \in {"rate", "login"}
        THEN Past(c)' = Past(c) \cup {t} ELSE Past(c)' = Past(c) \ {t}
    BY <1>1 DEF Past
  <1> QED BY <1>2, <1>3, <1>4

-----------------------------------------------------------------------------
(* The failures of a client lie in the past, and a failure on its way to   *)
(* the count is of this moment, unless the clock has overtaken it now.     *)

ClockInv ==
    /\ wrong \in [Clients -> Seq(Nat)]
    /\ \A c \in Clients :
          /\ \A k \in 1 .. Len(wrong[c]) : wrong[c][k] <= now
          /\ \A k \in 1 .. Len(Failures(c)) : Failures(c)[k] <= now
    /\ \A t \in Threads : thr[t].pc \in {"failure", "count"} =>
          thr[t].at = now \/ late[thr[t].client] = now

LEMMA ClockInit == Init => ClockInv
  <1> SUFFICES ASSUME Init PROVE ClockInv
    OBVIOUS
  <1>1. wrong \in [Clients -> Seq(Nat)] /\ \A c \in Clients : wrong[c] = <<>> /\ Failures(c) = <<>>
    BY DEF Init, Failures, Limiters
  <1>2. \A t \in Threads : thr[t].pc = "idle"
    BY DEF Init, IdleThread
  <1> QED BY <1>1, <1>2 DEF ClockInv

\* What a step leaves of the failures of the clients.
LEMMA StepLeaves ==
    ASSUME StateInv, TimeInv, NEW t \in Threads, Step(t)
    PROVE  /\ UNCHANGED <<now, late>>
           /\ ~Login(t) => wrong' = wrong
           /\ ~RecordFailure(t) /\ ~CountFailures(t) =>
                 \A c \in Clients : Failures(c)' = Failures(c)
           /\ ~CheckBlocked(t) /\ ~CountFailures(t) => blocked' = blocked
  <1>1. CASE CheckRate(t)
    <2>1. LimiterOf(thr[t].kind) \in Limiters /\ LimiterOf(thr[t].kind) # "login_failures"
          /\ "login_failures" \in Limiters
      BY DEF LimiterOf, Limiters
    <2>2. events \in [Clients -> [Limiters -> Bucket]]
      BY DEF TimeInv, BucketsOK
    <2>3. \A c \in Clients : Failures(c)' = Failures(c)
      BY <1>1, <2>1, <2>2 DEF CheckRate, Allow, Failures
    <2> QED BY <1>1, <2>3 DEF CheckRate
  <1>2. CASE ~CheckRate(t)
    BY <1>2 DEF Step, CheckBlocked, Challenge, Login, RecordFailure, CountFailures,
       CheckLoginPolicy, Grant, ReadSession, CheckSessionPolicy, SlideSession, Handle, Failures
  <1> QED BY <1>1, <1>2

\* The failures that a failure is recorded or counted among.
LEMMA FailuresChange ==
    ASSUME StateInv, TimeInv, NEW t \in Threads, NEW c \in Clients, c = thr[t].client,
           RecordFailure(t) \/ CountFailures(t)
    PROVE  LET r == Trim(Failures(c), thr[t].at)
           IN  /\ thr[t].at \in 1 .. now /\ thr[t].at \in 1 .. MaxTime
               /\ Failures(c) \in Bucket /\ Len(Failures(c)) <= L /\ r \in Bucket
               /\ Failures(c)' = r \/ Failures(c)' = Append(r, thr[t].at)
               /\ RecordFailure(t) /\ Len(r) < L => Failures(c)' = Append(r, thr[t].at)
               /\ CountFailures(t) \/ ~(Len(r) < L) => Failures(c)' = r
               /\ \A d \in Clients \ {c} : Failures(d)' = Failures(d)
  <1> DEFINE l == "login_failures"
             r == Trim(events[c][l], thr[t].at)
  <1>1. l \in Limiters /\ thr[t].pc # "idle"
    BY DEF Limiters, RecordFailure, CountFailures
  <1>2. events \in [Clients -> [Limiters -> Bucket]]
        /\ \A d \in Clients : Len(events[d][l]) <= Limit[l]
    BY <1>1 DEF TimeInv, BucketsOK
  <1>3. thr[t].at \in 1 .. now /\ thr[t].at \in 1 .. MaxTime
    BY <1>1, AccessAssumption DEF StateInv, TimeInv
  <1>4. r \in Bucket /\ Len(r) \in Nat /\ Limit[l] \in Nat
    BY <1>1, <1>2, TrimOK, AccessAssumption DEF Bucket
  <1>5. \/ events' = [events EXCEPT ![c][l] = r]
        \/ events' = [events EXCEPT ![c][l] = Append(r, thr[t].at)]
    BY DEF RecordFailure, CountFailures, Allow
  <1>6. CountFailures(t) => events' = [events EXCEPT ![c][l] = r]
    BY DEF CountFailures
  <1>7. RecordFailure(t) =>
           IF Len(r) < Limit[l] THEN events' = [events EXCEPT ![c][l] = Append(r, thr[t].at)]
                                ELSE events' = [events EXCEPT ![c][l] = r]
    <2>1. Allowed(c, l, thr[t].at) <=> Len(r) < Limit[l]
      BY <1>4 DEF Allowed, Full
    <2>2. RecordFailure(t) => Allow(c, l, thr[t].at)
      BY DEF RecordFailure
    <2> QED BY <2>1, <2>2 DEF Allow
  <1> HIDE DEF r
  <1>8. /\ \A d \in Clients \ {c} : events'[d][l] = events[d][l]
        /\ events'[c][l] = r \/ events'[c][l] = Append(r, thr[t].at)
    BY <1>1, <1>2, <1>5
  <1>9. CountFailures(t) \/ ~(Len(r) < Limit[l]) => events'[c][l] = r
    BY <1>1, <1>2, <1>6, <1>7
  <1>10. RecordFailure(t) /\ Len(r) < Limit[l] => events'[c][l] = Append(r, thr[t].at)
    BY <1>1, <1>2, <1>7
  <1>11. r = Trim(Failures(c), thr[t].at)
    BY DEF r, Failures
  <1> SUFFICES
         /\ Failures(c) \in Bucket /\ Len(Failures(c)) <= L /\ r \in Bucket
         /\ Failures(c)' = r \/ Failures(c)' = Append(r, thr[t].at)
         /\ RecordFailure(t) /\ Len(r) < L => Failures(c)' = Append(r, thr[t].at)
         /\ CountFailures(t) \/ ~(Len(r) < L) => Failures(c)' = r
         /\ \A d \in Clients \ {c} : Failures(d)' = Failures(d)
    BY <1>3, <1>11, Zenon
  <1> QED BY <1>1, <1>2, <1>4, <1>8, <1>9, <1>10 DEF Failures, L

LEMMA ClockStep ==
    ASSUME StateInv, TimeInv, ClockInv, NEW t \in Threads, Step(t)
    PROVE  ClockInv'
  <1>0. /\ UNCHANGED <<now, late>> /\ Moved(t) /\ now \in Nat
        /\ thr[t].client \in Clients
    BY StepLeaves, StateStep DEF StateInv, ThreadOK, ThreadState
  <1>1. wrong' \in [Clients -> Seq(Nat)]
        /\ \A c \in Clients : \A k \in 1 .. Len(wrong'[c]) : wrong'[c][k] <= now
    <2>1. CASE wrong' = wrong
      BY <2>1 DEF ClockInv
    <2>2. CASE wrong' = [wrong EXCEPT ![thr[t].client] = Append(@, now)]
      <3> DEFINE c == thr[t].client
      <3>1. /\ wrong[c] \in Seq(Nat) /\ wrong'[c] = Append(wrong[c], now)
            /\ \A d \in Clients \ {c} : wrong'[d] = wrong[d]
        BY <1>0, <2>2 DEF ClockInv
      <3>2. /\ wrong'[c] \in Seq(Nat) /\ Len(wrong'[c]) = Len(wrong[c]) + 1
            /\ wrong'[c][Len(wrong[c]) + 1] = now /\ Len(wrong[c]) \in Nat
            /\ \A k \in 1 .. Len(wrong[c]) : wrong'[c][k] = wrong[c][k]
        BY <1>0, <3>1, AppendProperties
      <3>3. \A k \in 1 .. Len(wrong'[c]) : wrong'[c][k] <= now
        <4> SUFFICES ASSUME NEW k \in 1 .. Len(wrong'[c]) PROVE wrong'[c][k] <= now
          OBVIOUS
        <4>1. k = Len(wrong[c]) + 1 \/ k \in 1 .. Len(wrong[c])
          BY <3>2
        <4>2. \A i \in 1 .. Len(wrong[c]) : wrong[c][i] <= now
          BY <1>0 DEF ClockInv
        <4> HIDE DEF c
        <4> QED BY <1>0, <3>2, <4>1, <4>2
      <3>4. wrong' \in [Clients -> Seq(Nat)]
        BY <1>0, <2>2, <3>1, <3>2 DEF ClockInv
      <3> QED BY <3>1, <3>3, <3>4 DEF ClockInv
    <2> QED BY <2>1, <2>2, StepLeaves DEF Login
  <1>2. ASSUME NEW c \in Clients, NEW k \in 1 .. Len(Failures(c)') PROVE Failures(c)'[k] <= now
    <2>1. CASE Failures(c)' = Failures(c)
      BY <1>2, <2>1 DEF ClockInv
    <2>2. CASE c = thr[t].client /\ (RecordFailure(t) \/ CountFailures(t))
      <3> DEFINE b == Failures(c)
                 r == Trim(b, thr[t].at)
                 n == Failures(c)'
      <3>1. /\ b \in Bucket /\ thr[t].at <= now /\ thr[t].at \in 1 .. MaxTime
            /\ n = r \/ n = Append(r, thr[t].at)
        <4>1. /\ b \in Bucket /\ thr[t].at \in 1 .. now /\ thr[t].at \in 1 .. MaxTime
              /\ n = r \/ n = Append(r, thr[t].at)
          BY <1>2, <2>2, FailuresChange, Zenon
        <4> HIDE DEF n, r, b
        <4> QED BY <1>0, <4>1
      <3>2. \A i \in 1 .. Len(b) : b[i] <= now
        BY <1>2 DEF ClockInv
      <3> HIDE DEF b
      <3>3. r \in Bucket /\ Len(b) \in Nat /\ Len(r) \in Nat
        BY <3>1, TrimOK DEF Bucket
      <3>4. \A i \in 1 .. Len(r) : r[i] <= now
        <4> SUFFICES ASSUME NEW i \in 1 .. Len(r) PROVE r[i] <= now
          OBVIOUS
        <4>1. r # <<>>
          OBVIOUS
        <4>2. PICK m \in 1 .. Len(b) :
                 Len(r) = Len(b) - m + 1 /\ \A j \in 1 .. Len(b) - m + 1 : r[j] = b[m + j - 1]
          BY <3>1, <4>1, TrimShape
        <4>3. m + i - 1 \in 1 .. Len(b) /\ r[i] = b[m + i - 1]
          <5> HIDE DEF r
          <5> QED BY <3>3, <4>2
        <4> QED BY <3>2, <4>3
      <3> HIDE DEF r
      <3>5. CASE n = Append(r, thr[t].at)
        <4>1. /\ Len(n) = Len(r) + 1 /\ n[Len(r) + 1] = thr[t].at
              /\ \A i \in 1 .. Len(r) : n[i] = r[i]
          BY <3>1, <3>3, <3>5, AppendProperties DEF Bucket
        <4>2. k = Len(r) + 1 \/ k \in 1 .. Len(r)
          BY <1>2, <3>3, <4>1
        <4> QED BY <3>1, <3>4, <4>1, <4>2
      <3> QED BY <1>2, <3>1, <3>4, <3>5
    <2>3. CASE c # thr[t].client /\ (RecordFailure(t) \/ CountFailures(t))
      <3> DEFINE o == thr[t].client
      <3>1. o \in Clients /\ o = thr[t].client
        BY <1>0
      <3> HIDE DEF o
      <3>2. Failures(c)' = Failures(c)
        BY <2>3, <3>1, FailuresChange, Zenon
      <3> QED BY <2>1, <3>2
    <2>4. CASE ~(RecordFailure(t) \/ CountFailures(t))
      BY <2>1, <2>4, StepLeaves
    <2> QED BY <2>2, <2>3, <2>4
  <1>3. ASSUME NEW u \in Threads, thr'[u].pc \in {"failure", "count"}
        PROVE  thr'[u].at = now \/ late[thr'[u].client] = now
    <2>1. CASE u # t
      BY <1>0, <1>3, <2>1 DEF Moved, ClockInv
    <2>2. CASE u = t
      <3>1. CASE Login(t)
        BY <1>3, <2>2, <3>1, Went DEF Login
      <3>2. CASE RecordFailure(t)
        <4>1. thr[t].pc = "failure" /\ thr'[t].at = thr[t].at /\ thr'[t].client = thr[t].client
          BY <3>2, Went DEF RecordFailure
        <4> QED BY <2>2, <4>1 DEF ClockInv
      <3>3. CASE ~Login(t) /\ ~RecordFailure(t)
        BY <1>3, <2>2, <3>3, Went DEF Step, CheckBlocked, CheckRate, Challenge, CountFailures,
           CheckLoginPolicy, Grant, ReadSession, CheckSessionPolicy, SlideSession, Handle
      <3> QED BY <3>1, <3>2, <3>3
    <2> QED BY <2>1, <2>2
  <1> QED BY <1>0, <1>1, <1>2, <1>3 DEF ClockInv

LEMMA ClockNext == StateInv /\ TimeInv /\ ClockInv /\ [Next]_vars => ClockInv'
  <1> SUFFICES ASSUME StateInv, TimeInv, ClockInv, [Next]_vars PROVE ClockInv'
    OBVIOUS
  <1>1. ASSUME NEW t \in Threads, NEW c \in Clients, Arrive(t, c) PROVE ClockInv'
    <2>1. Moved(t) /\ thr'[t].pc = "blocked"
      <3>1. PICK r \in Requests : Moved(t) /\ thr'[t] = Arrived(r, c)
        BY <1>1, ArriveMoves
      <3> QED BY <3>1 DEF Arrived
    <2>2. UNCHANGED <<now, events, wrong, late>>
      BY <1>1 DEF Arrive
    <2> QED BY <2>1, <2>2 DEF Moved, ClockInv, Failures
  <1>2. ASSUME NEW c \in Clients, EditWhitelist(c) PROVE ClockInv'
    <2>1. UNCHANGED <<now, events, wrong, late>>
      BY <1>2 DEF EditWhitelist
    <2>2. ASSUME NEW t \in Threads
          PROVE  thr'[t].pc = thr[t].pc /\ thr'[t].at = thr[t].at /\ thr'[t].client = thr[t].client
      BY <1>2, <2>2 DEF EditWhitelist, StateInv, ThreadOK, ThreadState
    <2> QED BY <2>1, <2>2 DEF ClockInv, Failures
  <1>3. CASE Tick
    <2>1. now \in Nat /\ now' = now + 1 /\ UNCHANGED <<events, wrong, thr>>
      BY <1>3 DEF Tick, StateInv
    <2>2. ASSUME NEW t \in Threads, thr[t].pc \in {"failure", "count"}
          PROVE  late'[thr[t].client] = now'
      <3>1. thr[t].client \in Clients /\ t \in Uncounted(thr[t].client)
        BY <2>2 DEF StateInv, ThreadOK, ThreadState, Uncounted
      <3> QED BY <1>3, <2>1, <3>1 DEF Tick
    <2>3. ASSUME NEW c \in Clients
          PROVE  /\ \A k \in 1 .. Len(wrong[c]) : wrong[c][k] \in Nat /\ wrong[c][k] <= now
                 /\ \A k \in 1 .. Len(Failures(c)) : Failures(c)[k] \in Nat /\ Failures(c)[k] <= now
      <3>1. wrong[c] \in Seq(Nat) /\ Failures(c) \in Bucket
        BY DEF ClockInv, TimeInv, BucketsOK, Failures, Limiters
      <3>2. \A k \in 1 .. Len(wrong[c]) : wrong[c][k] \in Nat
        BY <3>1, LenProperties
      <3>3. \A k \in 1 .. Len(Failures(c)) : Failures(c)[k] \in 1 .. MaxTime
        BY <3>1, LenProperties DEF Bucket
      <3> QED BY <3>2, <3>3 DEF ClockInv
    <2>4. \A c \in Clients : Failures(c)' = Failures(c)
      BY <2>1 DEF Failures
    <2>5. \A c \in Clients :
             /\ \A k \in 1 .. Len(wrong'[c]) : wrong'[c][k] <= now'
             /\ \A k \in 1 .. Len(Failures(c)') : Failures(c)'[k] <= now'
      BY <2>1, <2>3, <2>4
    <2> QED BY <2>1, <2>2, <2>5 DEF ClockInv
  <1>4. CASE UNCHANGED vars
    BY <1>4 DEF vars, ClockInv, Failures
  <1> QED BY <1>1, <1>2, <1>3, <1>4, ClockStep DEF Next

-----------------------------------------------------------------------------
(* The bound on guessing.  Of the wrong proofs compared since a moment s   *)
(* that lies within the window, all but those of the threads that have yet *)
(* to record theirs are in the bucket; or the bucket is full, and the next *)
(* thread that counts will find it so and block the client; or the client  *)
(* is blocked until the window is over, and only the logins that are past  *)
(* the block may still come to a comparison.                               *)

Guesses(c, s) == Count(s .. s + Window, wrong[c])
Recorded(c, s) == Count(s .. MaxTime, Failures(c))

CountsUp(c, s) ==
    Recorded(c, s) < L /\ Guesses(c, s) <= Recorded(c, s) + Cardinality(Failing(c))
WillBlock(c, s) ==
    /\ Cardinality(Uncounted(c)) > 0 /\ Len(Trim(Failures(c), now)) >= L
    /\ Guesses(c, s) <= L - 1 + Cardinality(Uncounted(c))
Blocks(c, s) ==
    /\ blocked[c] > s + Window
    /\ Guesses(c, s) + Cardinality(Past(c)) <= L + Cardinality(Threads) - 1

WindowOK(c, s) ==
    /\ Guesses(c, s) <= L + Cardinality(Threads) - 1
    /\ now <= s + Window => CountsUp(c, s) \/ WillBlock(c, s) \/ Blocks(c, s)

GuessInv == \A c \in Clients : \A s \in late[c] + 1 .. now : WindowOK(c, s)

\* The numbers an invariant speaks of, before and after a step.
LEMMA Numbers ==
    ASSUME TimeInv, ClockInv, NEW c \in Clients, NEW s
    PROVE  /\ Guesses(c, s) \in Nat /\ Recorded(c, s) \in Nat /\ L \in Nat /\ L >= 1
           /\ Failures(c) \in Bucket /\ Len(Failures(c)) \in Nat /\ Len(Failures(c)) <= L
           /\ wrong[c] \in Seq(Nat)
           /\ Recorded(c, s) <= Len(Failures(c))
           /\ Cardinality(Threads) \in Nat /\ blocked[c] \in Nat
  <1>1. Failures(c) \in Bucket /\ Len(Failures(c)) <= L /\ L \in Nat /\ L >= 1
    BY AccessAssumption DEF TimeInv, BucketsOK, Failures, L, Limiters
  <1>2. wrong[c] \in Seq(Nat) /\ blocked[c] \in Nat
    BY DEF ClockInv, TimeInv
  <1>3. Len(wrong[c]) \in Nat /\ Len(Failures(c)) \in Nat
    BY <1>1, <1>2 DEF Bucket
  <1>4. Guesses(c, s) \in Nat /\ Recorded(c, s) \in Nat /\ Recorded(c, s) <= Len(Failures(c))
    BY <1>3, CountBounds DEF Guesses, Recorded
  <1>5. Cardinality(Threads) \in Nat
    BY AccessAssumption, FS_CardinalityType
  <1> QED BY <1>1, <1>2, <1>3, <1>4, <1>5

LEMMA BucketCount ==
    ASSUME NEW S, NEW b \in Bucket
    PROVE  /\ Len(b) \in Nat /\ Count(S, b) \in Nat /\ Count(S, b) <= Len(b)
           /\ \A x \in 1 .. MaxTime :
                 /\ Append(b, x) \in Bucket /\ Len(Append(b, x)) = Len(b) + 1
                 /\ Count(S, Append(b, x)) = Count(S, b) + IF x \in S THEN 1 ELSE 0
  <1> DEFINE T == 1 .. MaxTime
  <1>1. b \in Seq(T) /\ Len(b) \in Nat
    BY DEF Bucket
  <1> HIDE DEF T
  <1>2. Count(S, b) \in Nat /\ Count(S, b) <= Len(b)
    BY <1>1, CountBounds
  <1>3. ASSUME NEW x \in T
        PROVE  /\ Append(b, x) \in Seq(T) /\ Len(Append(b, x)) = Len(b) + 1
               /\ Count(S, Append(b, x)) = Count(S, b) + IF x \in S THEN 1 ELSE 0
    BY <1>1, <1>3, AppendProperties, CountAppend
  <1> QED BY <1>1, <1>2, <1>3 DEF T, Bucket

\* A step that leaves the failures of the client alone, and a block that is to
\* outlast the window.
LEMMA WindowKept ==
    ASSUME TimeInv, ClockInv, NEW c \in Clients, NEW s, WindowOK(c, s),
           now' = now, Failures(c)' = Failures(c), wrong'[c] = wrong[c],
           Failing(c)' = Failing(c), Uncounted(c)' = Uncounted(c),
           now <= s + Window /\ blocked[c] > s + Window =>
               blocked'[c] = blocked[c] /\ Past(c)' \subseteq Past(c)
    PROVE  WindowOK(c, s)'
  <1>1. Guesses(c, s)' = Guesses(c, s) /\ Recorded(c, s)' = Recorded(c, s)
    BY DEF Guesses, Recorded
  <1>2. CountsUp(c, s) => CountsUp(c, s)'
    BY <1>1 DEF CountsUp
  <1>3. WillBlock(c, s) => WillBlock(c, s)'
    BY <1>1 DEF WillBlock
  <1>4. now <= s + Window /\ Blocks(c, s) => Blocks(c, s)'
    <2>1. Past(c)' \subseteq Past(c) => Cardinality(Past(c)') <= Cardinality(Past(c))
      <3> DEFINE P == Past(c)'
      <3> HIDE DEF P
      <3>1. P \subseteq Past(c) => Cardinality(P) <= Cardinality(Past(c))
        BY ThreadsCounted, FS_Subset
      <3> QED BY <3>1 DEF P
    <2> SUFFICES ASSUME now <= s + Window, Blocks(c, s) PROVE Blocks(c, s)'
      OBVIOUS
    <2>2. /\ blocked'[c] = blocked[c] /\ Cardinality(Past(c)') <= Cardinality(Past(c))
          /\ Cardinality(Past(c)) \in Nat /\ Cardinality(Past(c)') \in Nat
          /\ Guesses(c, s) \in Nat /\ L \in Nat /\ Cardinality(Threads) \in Nat
      BY <2>1, ThreadsCounted, ThreadsAfter, Numbers DEF Blocks
    <2> QED BY <1>1, <2>2 DEF Blocks
  <1> QED BY <1>1, <1>2, <1>3, <1>4 DEF WindowOK

\* A wrong proof is compared.
LEMMA WindowLogin ==
    ASSUME StateInv, TimeInv, ClockInv, NEW t \in Threads, Step(t), Login(t),
           NEW c \in Clients, thr[t].client = c, NEW s \in Nat, s <= now, WindowOK(c, s),
           GotoNow(t, "failure"), wrong' = [wrong EXCEPT ![thr[t].client] = Append(@, now)]
    PROVE  WindowOK(c, s)'
  <1> DEFINE F == Failing(c)
             U == Uncounted(c)
             P == Past(c)
             F1 == Failing(c)'
             U1 == Uncounted(c)'
             P1 == Past(c)'
  <1>1. /\ thr[t].pc = "login" /\ thr[t].kind = "login"
        /\ thr'[t].pc = "failure" /\ thr'[t].client = c
    BY Went DEF Login, StateInv, ThreadOK
  <1>2. F1 = F \cup {t} /\ U1 = U \cup {t} /\ P1 = P \ {t}
    BY <1>1, StateStep, SetsChange
  <1>3. t \notin F /\ t \notin U /\ t \in P
    BY <1>1 DEF Failing, Uncounted, Past
  <1>4. IsFiniteSet(F) /\ IsFiniteSet(U) /\ IsFiniteSet(P)
    BY ThreadsCounted
  <1> HIDE DEF F, U, P, F1, U1, P1
  <1>5. /\ Cardinality(F1) = Cardinality(F) + 1 /\ Cardinality(U1) = Cardinality(U) + 1
        /\ Cardinality(P1) = Cardinality(P) - 1
    BY <1>2, <1>3, <1>4, FS_AddElement, FS_RemoveElement
  <1>6. /\ now' = now /\ Failures(c)' = Failures(c) /\ blocked'[c] = blocked[c]
        /\ wrong'[c] = Append(wrong[c], now) /\ now \in Nat /\ wrong[c] \in Seq(Nat)
    <2>1. ~RecordFailure(t) /\ ~CountFailures(t) /\ ~CheckBlocked(t)
      BY <1>1 DEF RecordFailure, CountFailures, CheckBlocked
    <2>2. wrong'[c] = Append(wrong[c], now) /\ wrong[c] \in Seq(Nat) /\ now \in Nat
      BY DEF ClockInv, StateInv
    <2> QED BY <2>1, <2>2, StepLeaves
  <1>7. Guesses(c, s)' = Guesses(c, s) + IF now \in s .. s + Window THEN 1 ELSE 0
    <2>1. Guesses(c, s)' = Count(s .. s + Window, wrong'[c])
      BY DEF Guesses
    <2> DEFINE S == s .. s + Window
    <2> HIDE DEF S
    <2>2. Count(S, wrong'[c]) = Count(S, wrong[c]) + IF now \in S THEN 1 ELSE 0
      BY <1>6, CountAppend
    <2> QED BY <2>1, <2>2 DEF Guesses, S
  <1>8. Recorded(c, s)' = Recorded(c, s)
    BY <1>6 DEF Recorded
  <1> DEFINE N == Guesses(c, s)
             R == Recorded(c, s)
             T == Cardinality(Threads)
  <1>9. N \in Nat /\ R \in Nat /\ L \in Nat /\ T \in Nat
    BY Numbers
  <1>10. /\ Cardinality(F) \in Nat /\ Cardinality(U) \in Nat /\ Cardinality(P) \in Nat
         /\ Cardinality(F1) <= Cardinality(U1) /\ Cardinality(U1) + Cardinality(P1) <= T
         /\ Cardinality(P1) \in Nat
    BY ThreadsCounted, ThreadsAfter DEF F, U, P, F1, U1, P1
  <1>11. CASE now <= s + Window
    <2>1. Guesses(c, s)' = N + 1
      BY <1>6, <1>7, <1>11, AccessAssumption
    <2>2. CASE CountsUp(c, s)
      <3>1. R < L /\ N <= R + Cardinality(F)
        BY <2>2 DEF CountsUp, F
      <3>2. CountsUp(c, s)'
        <4> SUFFICES R < L /\ N + 1 <= R + Cardinality(F1)
          BY <1>8, <2>1 DEF CountsUp, F1
        <4> QED BY <1>5, <1>9, <1>10, <3>1
      <3>3. N + 1 <= L + T - 1
        <4> HIDE DEF N, R, T
        <4> QED BY <1>5, <1>9, <1>10, <3>1
      <3> QED BY <2>1, <3>2, <3>3 DEF WindowOK
    <2>3. CASE WillBlock(c, s)
      <3>1. N <= L - 1 + Cardinality(U) /\ Len(Trim(Failures(c), now)) >= L
        BY <2>3 DEF WillBlock, U
      <3>2. N + 1 <= L - 1 + Cardinality(U1) /\ N + 1 <= L + T - 1 /\ Cardinality(U1) > 0
        <4> HIDE DEF N, R, T
        <4> QED BY <1>5, <1>9, <1>10, <3>1
      <3>3. WillBlock(c, s)'
        BY <1>6, <2>1, <3>1, <3>2 DEF WillBlock, U1
      <3> QED BY <2>1, <3>2, <3>3 DEF WindowOK
    <2>4. CASE Blocks(c, s)
      <3>1. N + Cardinality(P) <= L + T - 1 /\ blocked[c] > s + Window
        BY <2>4 DEF Blocks, P
      <3>2. N + 1 + Cardinality(P1) <= L + T - 1 /\ N + 1 <= L + T - 1
        <4> HIDE DEF N, R, T
        <4> QED BY <1>5, <1>9, <1>10, <3>1
      <3>3. Blocks(c, s)'
        BY <1>6, <2>1, <3>1, <3>2 DEF Blocks, P1
      <3> QED BY <2>1, <3>2, <3>3 DEF WindowOK
    <2> QED BY <1>11, <2>2, <2>3, <2>4 DEF WindowOK
  <1>12. CASE ~(now <= s + Window)
    <2>1. Guesses(c, s)' = N
      BY <1>6, <1>7, <1>9, <1>12, AccessAssumption
    <2> QED BY <1>6, <1>12, <2>1 DEF WindowOK
  <1> QED BY <1>11, <1>12

\* A failure is recorded: the bucket gains an entry, or it was full.
LEMMA WindowRecord ==
    ASSUME StateInv, TimeInv, ClockInv, NEW t \in Threads, Step(t), RecordFailure(t),
           NEW c \in Clients, thr[t].client = c, NEW s \in Nat, s <= now, late[c] < now,
           WindowOK(c, s)
    PROVE  WindowOK(c, s)'
  <1> DEFINE F == Failing(c)
             U == Uncounted(c)
             P == Past(c)
             F1 == Failing(c)'
             U1 == Uncounted(c)'
             P1 == Past(c)'
             b == Failures(c)
             r == Trim(b, now)
             b1 == Failures(c)'
  <1>1. /\ thr[t].pc = "failure" /\ thr'[t].pc = "count" /\ thr'[t].client = c /\ thr[t].at = now
    BY Went DEF RecordFailure, ClockInv, StateInv, TimeInv
  <1>2. F1 = F \ {t} /\ U1 = U /\ P1 = P /\ t \in F /\ t \in U
    <2>1. F1 = F \ {t} /\ U1 = U \cup {t} /\ P1 = P \ {t}
      BY <1>1, StateStep, SetsChange
    <2>2. t \in F /\ t \in U /\ t \notin P
      BY <1>1 DEF Failing, Uncounted, Past
    <2> HIDE DEF F, U, P, F1, U1, P1
    <2> QED BY <2>1, <2>2
  <1>3. IsFiniteSet(F) /\ IsFiniteSet(U) /\ IsFiniteSet(P)
    BY ThreadsCounted
  <1> HIDE DEF F, U, P, F1, U1, P1
  <1>4. /\ Cardinality(F1) = Cardinality(F) - 1 /\ Cardinality(U1) = Cardinality(U)
        /\ Cardinality(P1) = Cardinality(P) /\ Cardinality(U) > 0
    <2>1. Cardinality(F1) = Cardinality(F) - 1
      BY <1>2, <1>3, FS_RemoveElement
    <2>2. Cardinality(U) \in Nat /\ Cardinality(U) # 0
      BY <1>2, <1>3, FS_EmptySet, FS_CardinalityType
    <2> QED BY <1>2, <2>1, <2>2
  <1>5. /\ now' = now /\ blocked'[c] = blocked[c] /\ wrong'[c] = wrong[c] /\ now \in Nat
    <2>1. ~Login(t) /\ ~CountFailures(t) /\ ~CheckBlocked(t)
      BY <1>1 DEF Login, CountFailures, CheckBlocked
    <2> QED BY <2>1, StepLeaves DEF StateInv
  <1>6. Guesses(c, s)' = Guesses(c, s)
    BY <1>5 DEF Guesses
  <1>7. /\ b \in Bucket /\ Len(b) <= L /\ r \in Bucket
        /\ now \in 1 .. MaxTime
        /\ Len(r) < L => b1 = Append(r, now)
        /\ ~(Len(r) < L) => b1 = r
    BY <1>1, FailuresChange
  <1> DEFINE N == Guesses(c, s)
             R == Recorded(c, s)
             T == Cardinality(Threads)
             S == s .. MaxTime
  <1>8. N \in Nat /\ R \in Nat /\ L \in Nat /\ T \in Nat /\ R = Count(S, b)
    BY Numbers DEF Recorded
  <1>9. /\ Cardinality(F) \in Nat /\ Cardinality(U) \in Nat /\ Cardinality(P) \in Nat
        /\ Cardinality(F) <= Cardinality(U) /\ Cardinality(F1) \in Nat
    BY ThreadsCounted, ThreadsAfter DEF F, U, P, F1
  <1>10. Recorded(c, s)' = Count(S, b1)
    BY DEF Recorded
  <1>11. CASE now <= s + Window
    <2>1. R <= Count(S, r)
      BY <1>5, <1>7, <1>8, <1>11, TrimKeeps
    <2>2. CASE Len(r) < L
      <3>1. b1 = Append(r, now) /\ now \in S
        BY <1>5, <1>7, <2>2
      <3> HIDE DEF b, r, b1, S
      <3>2. b1 \in Bucket /\ Count(S, b1) = Count(S, r) + 1 /\ Len(b1) \in Nat
        BY <1>7, <3>1, BucketCount
      <3>3. Count(S, r) \in Nat
        BY <1>7, BucketCount
      <3>4. CASE CountsUp(c, s)
        <4>1. R < L /\ N <= R + Cardinality(F)
          BY <3>4 DEF CountsUp, F
        <4>2. N <= Count(S, b1) + Cardinality(F1) /\ N <= L - 1 + Cardinality(U1)
          <5> HIDE DEF N, R, T
          <5> QED BY <1>4, <1>8, <1>9, <2>1, <3>2, <3>3, <4>1
        <4>3. CASE Count(S, b1) < L
          <5>1. CountsUp(c, s)'
            BY <1>6, <1>10, <4>2, <4>3 DEF CountsUp, F1
          <5> QED BY <1>6, <5>1 DEF WindowOK
        <4>4. CASE ~(Count(S, b1) < L)
          <5>1. Count(S, b1) <= Count(S, Trim(b1, now))
            BY <1>5, <1>11, <3>2, TrimKeeps DEF S
          <5>2. /\ Trim(b1, now) \in Bucket /\ Len(Trim(b1, now)) \in Nat
                /\ Count(S, Trim(b1, now)) <= Len(Trim(b1, now))
                /\ Count(S, Trim(b1, now)) \in Nat
            BY <3>2, TrimOK, BucketCount
          <5>3. Len(Trim(b1, now)) >= L
            BY <1>8, <3>2, <3>3, <4>4, <5>1, <5>2
          <5>4. WillBlock(c, s)'
            BY <1>4, <1>5, <1>6, <4>2, <5>3 DEF WillBlock, U1, b1
          <5> QED BY <1>6, <5>4 DEF WindowOK
        <4> QED BY <4>3, <4>4
      <3>5. CASE WillBlock(c, s)
        BY <1>8, <2>2, <3>5 DEF WillBlock, r, b
      <3>6. CASE Blocks(c, s)
        <4>1. Blocks(c, s)'
          BY <1>4, <1>5, <1>6, <3>6 DEF Blocks, P, P1
        <4> QED BY <1>6, <4>1 DEF WindowOK
      <3> QED BY <1>11, <3>4, <3>5, <3>6 DEF WindowOK
    <2>3. CASE ~(Len(r) < L)
      <3>1. b1 = r /\ Len(Trim(r, now)) = Len(r) /\ Len(r) \in Nat
        BY <1>5, <1>7, <2>3, TrimAgain DEF Bucket
      <3>2. Len(Trim(b1, now)) >= L
        <4> HIDE DEF b, r, b1
        <4> QED BY <1>8, <2>3, <3>1
      <3>3. CASE CountsUp(c, s) \/ WillBlock(c, s)
        <4>1. N <= L - 1 + Cardinality(U)
          <5>1. CountsUp(c, s) => R < L /\ N <= R + Cardinality(F)
            BY DEF CountsUp, F
          <5>2. WillBlock(c, s) => N <= L - 1 + Cardinality(U)
            BY DEF WillBlock, U
          <5> HIDE DEF N, R, T
          <5> QED BY <1>8, <1>9, <3>3, <5>1, <5>2
        <4>2. WillBlock(c, s)'
          BY <1>4, <1>5, <1>6, <3>2, <4>1 DEF WillBlock, U1
        <4> QED BY <1>6, <4>2 DEF WindowOK
      <3>4. CASE Blocks(c, s)
        <4>1. Blocks(c, s)'
          BY <1>4, <1>5, <1>6, <3>4 DEF Blocks, P, P1
        <4> QED BY <1>6, <4>1 DEF WindowOK
      <3> QED BY <1>11, <3>3, <3>4 DEF WindowOK
    <2> QED BY <2>2, <2>3
  <1>12. CASE ~(now <= s + Window)
    BY <1>5, <1>6, <1>12 DEF WindowOK
  <1> QED BY <1>11, <1>12

\* The failures are counted: the client is blocked for longer than the window,
\* or they are fewer than the limit.
LEMMA WindowCount ==
    ASSUME StateInv, TimeInv, ClockInv, Window < BlockTime,
           NEW t \in Threads, Step(t), CountFailures(t),
           NEW c \in Clients, thr[t].client = c, NEW s \in Nat, s <= now, late[c] < now,
           WindowOK(c, s)
    PROVE  WindowOK(c, s)'
  <1> DEFINE F == Failing(c)
             U == Uncounted(c)
             P == Past(c)
             F1 == Failing(c)'
             P1 == Past(c)'
             b == Failures(c)
             r == Trim(b, now)
             b1 == Failures(c)'
  <1>1. /\ thr[t].pc = "count" /\ thr'[t].pc = "idle" /\ thr[t].at = now
    BY Went DEF CountFailures, ClockInv, StateInv, TimeInv
  <1>2. F1 = F /\ P1 = P
    <2>1. F1 = F \ {t} /\ P1 = P \ {t}
      BY <1>1, StateStep, SetsChange
    <2>2. t \notin F /\ t \notin P
      BY <1>1 DEF Failing, Past
    <2> HIDE DEF F, P, F1, P1
    <2> QED BY <2>1, <2>2
  <1>3. /\ Cardinality(F) \in Nat /\ Cardinality(U) \in Nat /\ Cardinality(P) \in Nat
        /\ Cardinality(F) <= Cardinality(U)
        /\ Cardinality(U) + Cardinality(P) <= Cardinality(Threads)
    BY ThreadsCounted
  <1> HIDE DEF F, U, P, F1, P1
  <1>5. /\ now' = now /\ wrong'[c] = wrong[c] /\ now \in Nat
    <2>1. ~Login(t)
      BY <1>1 DEF Login
    <2> QED BY <2>1, StepLeaves DEF StateInv
  <1>6. Guesses(c, s)' = Guesses(c, s)
    BY <1>5 DEF Guesses
  <1>7. b \in Bucket /\ Len(b) <= L /\ r \in Bucket /\ b1 = r
    BY <1>1, FailuresChange
  <1> DEFINE N == Guesses(c, s)
             R == Recorded(c, s)
             T == Cardinality(Threads)
             S == s .. MaxTime
  <1>8. N \in Nat /\ R \in Nat /\ L \in Nat /\ T \in Nat /\ R = Count(S, b)
    BY Numbers DEF Recorded
  <1>9. Len(r) \in Nat /\ Count(S, r) \in Nat /\ Count(S, r) <= Len(r)
    BY <1>7, BucketCount
  <1>10. Recorded(c, s)' = Count(S, r)
    BY <1>7 DEF Recorded
  <1>11. CASE now <= s + Window
    <2>1. CASE Len(r) >= L
      <3>1. blocked'[c] = now + BlockTime
        <4>1. r = Trim(events[c]["login_failures"], thr[t].at)
          BY <1>1 DEF Failures
        <4>2. blocked' = [blocked EXCEPT ![c] = BlockedUntil(c, thr[t].at)]
          BY <2>1, <4>1 DEF CountFailures, L
        <4> QED BY <1>1, <4>2 DEF TimeInv, BlockedUntil
      <3>2. now + BlockTime > s + Window
        BY <1>5, AccessAssumption
      <3>3. N + Cardinality(P1) <= L + T - 1
        <4>1. CountsUp(c, s) => R < L /\ N <= R + Cardinality(F)
          BY DEF CountsUp, F
        <4>2. WillBlock(c, s) => N <= L - 1 + Cardinality(U)
          BY DEF WillBlock, U
        <4>3. Blocks(c, s) => N + Cardinality(P) <= L + T - 1
          BY DEF Blocks, P
        <4>4. CountsUp(c, s) \/ WillBlock(c, s) \/ Blocks(c, s)
          BY <1>11 DEF WindowOK
        <4> HIDE DEF N, R
        <4> QED BY <1>2, <1>3, <1>8, <4>1, <4>2, <4>3, <4>4
      <3>4. Blocks(c, s)'
        BY <1>6, <3>1, <3>2, <3>3 DEF Blocks, P1
      <3> QED BY <1>6, <3>4 DEF WindowOK
    <2>2. CASE ~(Len(r) >= L)
      <3>1. blocked'[c] = blocked[c]
        BY <1>1, <2>2 DEF CountFailures, Failures, L
      <3>2. CASE CountsUp(c, s)
        <4>1. N <= R + Cardinality(F)
          BY <3>2 DEF CountsUp, F
        <4>2. R <= Count(S, r)
          BY <1>5, <1>7, <1>8, <1>11, TrimKeeps
        <4>3. Count(S, r) < L /\ N <= Count(S, r) + Cardinality(F1)
          <5> HIDE DEF N, R, r, b, S
          <5> QED BY <1>2, <1>3, <1>8, <1>9, <2>2, <4>1, <4>2
        <4>4. CountsUp(c, s)'
          BY <1>6, <1>10, <4>3 DEF CountsUp, F1
        <4> QED BY <1>6, <4>4 DEF WindowOK
      <3>3. CASE WillBlock(c, s)
        BY <1>8, <2>2, <3>3 DEF WillBlock
      <3>4. CASE Blocks(c, s)
        <4>1. Blocks(c, s)'
          BY <1>2, <1>6, <3>1, <3>4 DEF Blocks, P, P1
        <4> QED BY <1>6, <4>1 DEF WindowOK
      <3> QED BY <1>11, <3>2, <3>3, <3>4 DEF WindowOK
    <2> QED BY <2>1, <2>2
  <1>12. CASE ~(now <= s + Window)
    BY <1>5, <1>6, <1>12 DEF WindowOK
  <1> QED BY <1>11, <1>12

\* A step for another client.
LEMMA WindowOther ==
    ASSUME StateInv, TimeInv, ClockInv, NEW t \in Threads, Step(t),
           NEW c \in Clients, thr[t].client # c, NEW s, WindowOK(c, s)
    PROVE  WindowOK(c, s)'
  <1>1. thr'[t].pc = "idle" \/ thr'[t].client # c
    BY StepGoesOn
  <1>2. t \notin Failing(c) /\ t \notin Uncounted(c) /\ t \notin Past(c)
    BY DEF Failing, Uncounted, Past
  <1>3. /\ Failing(c)' = Failing(c) \ {t} /\ Uncounted(c)' = Uncounted(c) \ {t}
        /\ Past(c)' = Past(c) \ {t}
    BY <1>1, StateStep, SetsChange
  <1>4. Failing(c)' = Failing(c) /\ Uncounted(c)' = Uncounted(c) /\ Past(c)' = Past(c)
    BY <1>2, <1>3
  <1>5. now' = now /\ wrong'[c] = wrong[c]
    <2>1. thr[t].client \in Clients
      BY DEF StateInv, ThreadOK, ThreadState
    <2>2. wrong' = wrong \/ wrong' = [wrong EXCEPT ![thr[t].client] = Append(@, now)]
      BY StepLeaves DEF Login
    <2>3. now' = now
      BY StepLeaves
    <2> QED BY <2>1, <2>2, <2>3 DEF ClockInv
  <1>6. blocked'[c] = blocked[c]
    <2>1. CASE CheckBlocked(t)
      BY <2>1 DEF CheckBlocked, TimeInv
    <2>2. CASE CountFailures(t)
      BY <2>2 DEF CountFailures, TimeInv
    <2> QED BY <2>1, <2>2, StepLeaves
  <1>7. Failures(c)' = Failures(c)
    <2>1. CASE RecordFailure(t) \/ CountFailures(t)
      <3> DEFINE o == thr[t].client
      <3>1. o \in Clients /\ o = thr[t].client
        BY DEF StateInv, ThreadOK, ThreadState
      <3> HIDE DEF o
      <3> QED BY <2>1, <3>1, FailuresChange, Zenon
    <2> QED BY <2>1, StepLeaves
  <1> QED BY <1>4, <1>5, <1>6, <1>7, WindowKept

\* A step for the client that neither compares a proof nor counts a failure.
LEMMA WindowCalm ==
    ASSUME StateInv, TimeInv, ClockInv, NEW t \in Threads, Step(t),
           ~RecordFailure(t), ~CountFailures(t), wrong' = wrong,
           NEW c \in Clients, thr[t].client = c, NEW s \in Nat, WindowOK(c, s)
    PROVE  WindowOK(c, s)'
  <1>1. /\ thr[t].pc \notin {"failure", "count"} /\ thr'[t].pc \notin {"failure", "count"}
        /\ thr'[t].pc \in {"rate", "login"} /\ ~CheckBlocked(t) =>
               thr[t].pc = "rate" /\ thr'[t].kind = thr[t].kind
    <2>1. wrong' = [wrong EXCEPT ![c] = Append(@, now)] => wrong' # wrong
      <3>1. wrong[c] \in Seq(Nat) /\ now \in Nat /\ wrong \in [Clients -> Seq(Nat)]
        BY DEF ClockInv, StateInv
      <3>2. Append(wrong[c], now) # wrong[c]
        <4>1. Len(Append(wrong[c], now)) = Len(wrong[c]) + 1 /\ Len(wrong[c]) \in Nat
          BY <3>1, AppendProperties
        <4> QED BY <4>1
      <3> QED BY <3>1, <3>2
    <2>2. Login(t) => Respond(t) \/ Goto(t, "login_policy")
      BY <2>1 DEF Login
    <2>3. CASE Login(t)
      BY <2>2, <2>3, Went DEF Login
    <2>4. CASE CheckBlocked(t)
      BY <2>4, Went DEF CheckBlocked
    <2>5. CASE CheckRate(t)
      BY <2>5, Went DEF CheckRate, StateInv, ThreadOK, ThreadState
    <2>6. CASE ~Login(t) /\ ~CheckBlocked(t) /\ ~CheckRate(t)
      BY <2>6, Went DEF Step, Challenge, CheckLoginPolicy, Grant, ReadSession,
         CheckSessionPolicy, SlideSession, Handle
    <2> QED BY <2>3, <2>4, <2>5, <2>6
  <1>2. /\ Failing(c)' = Failing(c) \ {t} /\ Uncounted(c)' = Uncounted(c) \ {t}
        /\ t \notin Failing(c) /\ t \notin Uncounted(c)
    <2>1. Failing(c)' = Failing(c) \ {t} /\ Uncounted(c)' = Uncounted(c) \ {t}
      BY <1>1, StateStep, SetsChange
    <2>2. t \notin Failing(c) /\ t \notin Uncounted(c)
      BY <1>1 DEF Failing, Uncounted
    <2> QED BY <2>1, <2>2
  <1>3. Failing(c)' = Failing(c) /\ Uncounted(c)' = Uncounted(c)
    BY <1>2
  <1>4. now' = now /\ Failures(c)' = Failures(c) /\ wrong'[c] = wrong[c]
    BY StepLeaves
  <1>5. ASSUME now <= s + Window, blocked[c] > s + Window
        PROVE  blocked'[c] = blocked[c] /\ Past(c)' \subseteq Past(c)
    <2>1. CASE CheckBlocked(t)
      <3>1. thr[t].pc # "idle" /\ thr[t].at \in 1 .. now /\ now \in Nat
        BY <2>1 DEF CheckBlocked, TimeInv, StateInv
      <3>2. blocked[c] > thr[t].at
        BY <1>5, <3>1, AccessAssumption DEF TimeInv
      <3>3. Respond(t) /\ blocked' = blocked
        BY <2>1, <3>2 DEF CheckBlocked
      <3>4. Past(c)' = Past(c) \ {t}
        BY <3>3, Went, StateStep, SetsChange
      <3> QED BY <3>3, <3>4
    <2>2. CASE ~CheckBlocked(t)
      <3>1. blocked' = blocked
        BY <2>2, StepLeaves
      <3>2. CASE thr'[t].client = c /\ thr'[t].kind = "login" /\ thr'[t].pc \in {"rate", "login"}
        <4>1. Past(c)' = Past(c) \cup {t}
          BY <3>2, StateStep, SetsChange
        <4>2. t \in Past(c)
          BY <1>1, <2>2, <3>2 DEF Past
        <4> QED BY <3>1, <4>1, <4>2
      <3>3. CASE ~(thr'[t].client = c /\ thr'[t].kind = "login" /\ thr'[t].pc \in {"rate", "login"})
        <4>1. Past(c)' = Past(c) \ {t}
          BY <3>3, StateStep, SetsChange
        <4> QED BY <3>1, <4>1
      <3> QED BY <3>2, <3>3
    <2> QED BY <2>1, <2>2
  <1> QED BY <1>3, <1>4, <1>5, WindowKept

LEMMA GuessStep ==
    ASSUME StateInv, TimeInv, ClockInv, GuessInv, Window < BlockTime, NEW t \in Threads, Step(t)
    PROVE  GuessInv'
  <1> SUFFICES ASSUME NEW c \in Clients, NEW s \in late[c] + 1 .. now PROVE WindowOK(c, s)'
    BY StepLeaves DEF GuessInv
  <1>1. /\ WindowOK(c, s) /\ s \in Nat /\ s <= now /\ late[c] < now
    BY DEF GuessInv, TimeInv, StateInv
  <1>2. CASE thr[t].client # c
    BY <1>1, <1>2, WindowOther
  <1>3. CASE thr[t].client = c
    <2>1. CASE RecordFailure(t)
      BY <1>1, <1>3, <2>1, WindowRecord
    <2>2. CASE CountFailures(t)
      BY <1>1, <1>3, <2>2, WindowCount
    <2>3. CASE ~RecordFailure(t) /\ ~CountFailures(t) /\ wrong' = wrong
      BY <1>1, <1>3, <2>3, WindowCalm
    <2>4. CASE wrong' # wrong
      <3>1. Login(t)
        BY <2>4, StepLeaves
      <3>2. GotoNow(t, "failure") /\ wrong' = [wrong EXCEPT ![thr[t].client] = Append(@, now)]
        BY <2>4, <3>1 DEF Login
      <3> QED BY <1>1, <1>3, <3>1, <3>2, WindowLogin
    <2> QED BY <2>1, <2>2, <2>3, <2>4
  <1> QED BY <1>2, <1>3

\* A moment that has just begun has seen no failure.
LEMMA GuessTick ==
    ASSUME StateInv, TimeInv, ClockInv, GuessInv, Tick
    PROVE  GuessInv'
  <1>0. /\ now \in Nat /\ now' = now + 1 /\ UNCHANGED <<events, blocked, wrong, thr>>
    BY DEF Tick, StateInv
  <1> SUFFICES ASSUME NEW c \in Clients, NEW s \in late'[c] + 1 .. now + 1 PROVE WindowOK(c, s)'
    BY <1>0 DEF GuessInv
  <1>1. Uncounted(c) = {} /\ late'[c] = late[c] /\ late[c] \in Nat /\ s \in Nat
    <2>1. late'[c] = IF Uncounted(c) # {} THEN now + 1 ELSE late[c]
      BY DEF Tick
    <2>2. late[c] \in Nat
      BY DEF TimeInv
    <2> QED BY <1>0, <2>1, <2>2
  <1>2. /\ Guesses(c, s)' = Guesses(c, s) /\ Recorded(c, s)' = Recorded(c, s)
        /\ Failing(c)' = Failing(c) /\ Past(c)' = Past(c)
    BY <1>0 DEF Guesses, Recorded, Failures, Failing, Past
  <1>3. CASE s \in late[c] + 1 .. now
    <2>1. WindowOK(c, s)
      BY <1>3 DEF GuessInv
    <2>2. ~WillBlock(c, s)
      BY <1>1, FS_EmptySet DEF WillBlock
    <2>3. CountsUp(c, s) => CountsUp(c, s)'
      BY <1>2 DEF CountsUp
    <2>4. Blocks(c, s) => Blocks(c, s)'
      BY <1>0, <1>2 DEF Blocks
    <2>5. now + 1 <= s + Window => now <= s + Window
      BY <1>0, <1>1, AccessAssumption
    <2> QED BY <1>0, <1>2, <2>1, <2>2, <2>3, <2>4, <2>5 DEF WindowOK
  <1>4. CASE s = now + 1
    <2>1. Guesses(c, s) = 0
      <3> DEFINE q == wrong[c]
                 S == s .. s + Window
      <3>1. q \in Seq(Nat) /\ Len(q) \in Nat /\ \A k \in 1 .. Len(q) : q[k] \in Nat /\ q[k] <= now
        <4>1. wrong[c] \in Seq(Nat) /\ \A k \in 1 .. Len(wrong[c]) : wrong[c][k] <= now
          BY DEF ClockInv
        <4>2. \A k \in 1 .. Len(wrong[c]) : wrong[c][k] \in Nat
          BY <4>1, LenProperties
        <4> QED BY <4>1, <4>2
      <3> HIDE DEF q
      <3>2. \A k \in 1 .. Len(q) : q[k] \notin S
        BY <1>0, <1>4, <3>1
      <3> HIDE DEF S
      <3>3. Count(S, q) = 0
        BY <3>1, <3>2, CountBounds
      <3> QED BY <3>3 DEF Guesses, q, S
    <2>2. /\ L \in Nat /\ L >= 1 /\ Cardinality(Threads) \in Nat /\ Recorded(c, s) \in Nat
          /\ Cardinality(Failing(c)) \in Nat
      BY Numbers, ThreadsCounted
    <2>3. Recorded(c, s) = 0
      <3> DEFINE b == Failures(c)
                 S == s .. MaxTime
      <3>1. b \in Bucket /\ \A k \in 1 .. Len(b) : b[k] <= now
        BY Numbers DEF ClockInv
      <3> HIDE DEF b
      <3>2. Len(b) \in Nat /\ \A k \in 1 .. Len(b) : b[k] \in 1 .. MaxTime
        BY <3>1, LenProperties DEF Bucket
      <3>3. \A k \in 1 .. Len(b) : b[k] \notin S
        BY <1>0, <1>4, <3>1, <3>2
      <3> HIDE DEF S
      <3>4. Count(S, b) = 0
        BY <3>2, <3>3, CountBounds
      <3> QED BY <3>4 DEF Recorded, b, S
    <2>4. CountsUp(c, s)'
      BY <1>2, <2>1, <2>2, <2>3 DEF CountsUp
    <2> QED BY <1>2, <2>1, <2>2, <2>4 DEF WindowOK
  <1> QED BY <1>0, <1>1, <1>3, <1>4

LEMMA GuessNext ==
    ASSUME Window < BlockTime
    PROVE  StateInv /\ TimeInv /\ ClockInv /\ GuessInv /\ [Next]_vars => GuessInv'
  <1> SUFFICES ASSUME StateInv, TimeInv, ClockInv, GuessInv, [Next]_vars PROVE GuessInv'
    OBVIOUS
  <1>1. CASE \E t \in Threads : Step(t)
    BY <1>1, GuessStep
  <1>2. CASE Tick
    BY <1>2, GuessTick
  <1>3. ASSUME NEW c \in Clients, NEW s \in late[c] + 1 .. now,
               UNCHANGED <<now, events, blocked, wrong, late>>,
               Failing(c)' = Failing(c), Uncounted(c)' = Uncounted(c), Past(c)' = Past(c)
        PROVE  WindowOK(c, s)'
    <2>1. Failures(c)' = Failures(c) /\ WindowOK(c, s)
      BY <1>3 DEF Failures, GuessInv
    <2> QED BY <1>3, <2>1, WindowKept
  <1>4. ASSUME UNCHANGED <<now, events, blocked, wrong, late>>,
               \A c \in Clients : /\ Failing(c)' = Failing(c) /\ Uncounted(c)' = Uncounted(c)
                                  /\ Past(c)' = Past(c)
        PROVE  GuessInv'
    BY <1>3, <1>4 DEF GuessInv
  <1>5. ASSUME NEW t \in Threads, NEW d \in Clients, Arrive(t, d) PROVE GuessInv'
    <2>1. UNCHANGED <<now, events, blocked, wrong, late>> /\ thr[t].pc = "idle"
      BY <1>5 DEF Arrive
    <2>2. PICK r \in Requests : Moved(t) /\ thr'[t] = Arrived(r, d)
      BY <1>5, ArriveMoves
    <2>3. thr'[t].pc = "blocked"
      BY <2>2 DEF Arrived
    <2>4. ASSUME NEW c \in Clients
          PROVE  /\ Failing(c)' = Failing(c) /\ Uncounted(c)' = Uncounted(c)
                 /\ Past(c)' = Past(c)
      <3>1. t \notin Failing(c) /\ t \notin Uncounted(c) /\ t \notin Past(c)
        BY <2>1 DEF Failing, Uncounted, Past
      <3>2. /\ Failing(c)' = Failing(c) \ {t} /\ Uncounted(c)' = Uncounted(c) \ {t}
            /\ Past(c)' = Past(c) \ {t}
        BY <2>2, <2>3, SetsChange
      <3> QED BY <3>1, <3>2
    <2> QED BY <1>4, <2>1, <2>4
  <1>6. ASSUME NEW d \in Clients, EditWhitelist(d) PROVE GuessInv'
    <2>1. UNCHANGED <<now, events, blocked, wrong, late>>
      BY <1>6 DEF EditWhitelist
    <2>2. \A t \in Threads : /\ thr'[t].pc = thr[t].pc /\ thr'[t].kind = thr[t].kind
                             /\ thr'[t].client = thr[t].client
      BY <1>6, EditWelcomes
    <2>3. \A c \in Clients : /\ Failing(c)' = Failing(c) /\ Uncounted(c)' = Uncounted(c)
                             /\ Past(c)' = Past(c)
      BY <2>2 DEF Failing, Uncounted, Past
    <2> QED BY <1>4, <2>1, <2>3
  <1>7. CASE UNCHANGED vars
    <2>1. UNCHANGED <<now, events, blocked, wrong, late, thr>>
      BY <1>7 DEF vars
    <2>2. \A c \in Clients : /\ Failing(c)' = Failing(c) /\ Uncounted(c)' = Uncounted(c)
                             /\ Past(c)' = Past(c)
      BY <2>1 DEF Failing, Uncounted, Past
    <2> QED BY <1>4, <2>1, <2>2
  <1> QED BY <1>1, <1>2, <1>5, <1>6, <1>7 DEF Next

LEMMA GuessInit == Init => GuessInv
  <1> SUFFICES ASSUME Init, NEW c \in Clients, NEW s \in late[c] + 1 .. now PROVE WindowOK(c, s)
    BY DEF GuessInv
  <1>1. wrong[c] = <<>> /\ Failures(c) = <<>>
    BY DEF Init, Failures, Limiters
  <1>2. Count(s .. s + Window, <<>>) = 0 /\ Count(s .. MaxTime, <<>>) = 0
    <2> DEFINE q == <<>>
    <2>1. Len(q) = 0
      OBVIOUS
    <2> HIDE DEF q
    <2>2. Len(q) \in Nat /\ \A k \in 1 .. Len(q) : FALSE
      BY <2>1
    <2>3. ASSUME NEW S PROVE Count(S, q) = 0
      BY <2>2, CountBounds
    <2> QED BY <2>3 DEF q
  <1>3. /\ L \in Nat /\ L >= 1 /\ Cardinality(Threads) \in Nat
        /\ Cardinality(Failing(c)) \in Nat
    BY ThreadsCounted, AccessAssumption, FS_CardinalityType DEF L, Limiters
  <1> QED BY <1>1, <1>2, <1>3 DEF WindowOK, CountsUp, Guesses, Recorded

\* When a block outlasts the window, the wrong proofs compared for a client in a
\* window exceed the limit by less than the number of threads, however the logins
\* interleave, as long as the clock overtakes none between comparison and count.
THEOREM GuessTheorem ==
    ASSUME Window < BlockTime
    PROVE  Spec => []GuessesBounded
  <1>1. StateInv /\ TimeInv /\ ClockInv /\ GuessInv => GuessesBounded
    <2> SUFFICES ASSUME StateInv, TimeInv, ClockInv, GuessInv,
                        NEW c \in Clients, NEW s \in late[c] + 1 .. MaxTime
                 PROVE  Guesses(c, s) <= L + Cardinality(Threads) - 1
      BY DEF GuessesBounded, Guesses, Count, L
    <2>0. now \in Nat /\ late[c] \in Nat /\ s \in Nat
      BY AccessAssumption DEF StateInv, TimeInv
    <2>1. CASE s <= now
      BY <2>0, <2>1 DEF GuessInv, WindowOK
    <2>2. CASE s > now
      <3> DEFINE q == wrong[c]
                 S == s .. s + Window
      <3>1. q \in Seq(Nat) /\ Len(q) \in Nat /\ \A k \in 1 .. Len(q) : q[k] \in Nat /\ q[k] <= now
        <4>1. wrong[c] \in Seq(Nat) /\ \A k \in 1 .. Len(wrong[c]) : wrong[c][k] <= now
          BY DEF ClockInv
        <4>2. \A k \in 1 .. Len(wrong[c]) : wrong[c][k] \in Nat
          BY <4>1, LenProperties
        <4> QED BY <4>1, <4>2
      <3> HIDE DEF q
      <3>2. \A k \in 1 .. Len(q) : q[k] \notin S
        BY <2>0, <2>2, <3>1
      <3> HIDE DEF S
      <3>3. Count(S, q) = 0
        BY <3>1, <3>2, CountBounds
      <3>4. L \in Nat /\ L >= 1 /\ Cardinality(Threads) \in Nat
        BY Numbers
      <3> QED BY <3>3, <3>4 DEF Guesses, q, S
    <2> QED BY <2>0, <2>1, <2>2
  <1> QED
    BY <1>1, StateInit, StateNext, TimeInit, TimeNext, ClockInit, ClockNext,
       GuessInit, GuessNext, PTL DEF Spec
=============================================================================
