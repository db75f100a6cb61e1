------------------------------- MODULE MCAccess -------------------------------
(* A small instance of AccessControl for TLC. *)
EXTENDS AccessControl, TLC

Limits == "unauthenticated" :> 6 @@ "authenticated" :> 1 @@ "login_failures" :> 1
Symmetry == Permutations(Threads) \cup Permutations(Nonces)
=============================================================================
