-------------------------- MODULE MCLoopbackPorts ---------------------------
(* LoopbackPorts for TLC: a share whose apps want both ports there are. *)
EXTENDS LoopbackPorts, TLC

CONSTANT k1

MCWants == k1 :> {1, 2}
=============================================================================
