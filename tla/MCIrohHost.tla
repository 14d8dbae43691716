----------------------------- MODULE MCIrohHost -----------------------------
(* IrohHost for TLC. *)
EXTENDS IrohHost, TLC

Symmetry ==
  UNION {Permutations(S) : S \in {Peers, Secrets, Users, Requests}}
=============================================================================
