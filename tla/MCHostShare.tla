---------------------------- MODULE MCHostShare ----------------------------
(* HostShare for TLC. *)
EXTENDS HostShare, TLC

ProcSymmetry == Permutations(Procs)
=============================================================================
