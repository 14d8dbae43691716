-------------------------- MODULE MCClientShares --------------------------
(* ClientShares for TLC. *)
EXTENDS ClientShares, TLC
=============================================================================
