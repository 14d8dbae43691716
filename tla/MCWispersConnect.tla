-------------------------- MODULE MCWispersConnect --------------------------
(* WispersConnect for TLC. *)
EXTENDS WispersConnect
=============================================================================
