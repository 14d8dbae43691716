----------------------------- MODULE MCStateDb -----------------------------
(* StateDb under any sequence of calls, for TLC. *)
EXTENDS StateDb, TLC

Symmetry == Permutations(Peers) \cup Permutations(Secrets) \cup Permutations(Users)
=============================================================================
