---------------------------- MODULE MCGuestNode ----------------------------
(* GuestNode for TLC: two calls at once on one guest node. *)
EXTENDS GuestNode
============================================================================
