------------------------------ MODULE MCApproval ------------------------------
(* A small instance of ApprovalBroker for TLC. *)
EXTENDS ApprovalBroker, TLC

Symmetry == Permutations(Parties)
=============================================================================
