----------------------------- MODULE MCRequests ------------------------------
(* Requests for TLC: one app, two requests at once for one stream. *)
EXTENDS Requests
=============================================================================
