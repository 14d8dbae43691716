--------------------------- MODULE WispersConnect ---------------------------
(***************************************************************************)
(* Membership of a share over Wispers Connect: invites, joining, serving,  *)
(* leaving and revoking, where the hub and not the host's database holds   *)
(* who is a guest (waserver/src/wispers_connect_transport.rs and wcbe.rs,  *)
(* sdk/src/wispers_connect_transport.rs).                                  *)
(*                                                                         *)
(* Every step that concerns membership is a request to the hub whose       *)
(* answer may be lost, and revoking and logging out take two of them.  A   *)
(* guest here is one invite: its registration token, the device that       *)
(* redeems it and the node number the hub gives that device.               *)
(***************************************************************************)
EXTENDS Naturals, FiniteSets

CONSTANTS Guests,     \* guests that are ever invited
          NodeQuotas, \* what the hub's nodes_per_group may be, the host node included
          MaxFaults   \* bound: lost answers, failed requests, crashes of a device

ASSUME QuotaAssumption == NodeQuotas \subseteq Nat \ {0}
ASSUME WCBounds == MaxFaults \in Nat /\ IsFiniteSet(Guests)

VARIABLES token,    \* external: each registration token at the hub
          node,     \* external: each node in the hub's group
          quota,    \* external: the plan's nodes_per_group, which does not change
          daemon,   \* the host's daemon and its hub session
          conn,     \* each guest's connection, as its task on the host has it
          device,   \* each guest's device
          op,       \* the operator's command
          wanted,   \* guests the operator will not stop revoking
          cut,      \* history: guests a revoke through the daemon succeeded for
          raced,    \* history: of those, with a connection not registered yet
          told,     \* history: guests a revoke ended in an error for
          orphaned, \* history: devices that gave up a node they could not log out
          faults

hub == <<token, node, quota>>
history == <<wanted, cut, raced, told, orphaned>>
vars == <<hub, daemon, conn, device, op, history, faults>>

None == "none"
Listed == {"registered", "activated", "revoked"}
NoOp == [cmd |-> None, guest |-> None, step |-> None, ipc |-> FALSE]

Op == [cmd : {None, "invite", "revoke"}, guest : Guests \cup {None},
       step : {None, "token", "code", "info", "roster", "delete", "close"}, ipc : BOOLEAN]

WCTypeOK ==
  /\ token \in [Guests -> {None, "minted", "handed out", "used", "expired"}]
  /\ node \in [Guests -> Listed \cup {None, "gone"}]
  /\ quota \in NodeQuotas
  /\ daemon \in {"down", "connecting", "up"}
  /\ conn \in [Guests -> {None, "accepted", "resolved", "served", "closing"}]
  /\ device \in [Guests -> {None, "register", "activate", "dial", "fetch", "joined",
                            "logout", "leave", "out"}]
  /\ op \in Op
  /\ cut \subseteq Guests /\ raced \subseteq cut /\ told \subseteq Guests
  /\ wanted \subseteq Guests /\ orphaned \subseteq Guests
  /\ faults \in 0 .. MaxFaults

WCInit ==
  /\ token = [g \in Guests |-> None] /\ node = [g \in Guests |-> None]
  /\ quota \in NodeQuotas
  /\ daemon = "down" /\ conn = [g \in Guests |-> None]
  /\ device = [g \in Guests |-> None] /\ op = NoOp
  /\ wanted = {} /\ cut = {} /\ raced = {} /\ told = {} /\ orphaned = {}
  /\ faults = 0

Fault == faults < MaxFaults /\ faults' = faults + 1
Set(f, g, v) == [f EXCEPT ![g] = v]

\* A token that can still be redeemed takes a slot of the quota, as a node does.
Slots == {g \in Guests : token[g] \in {"minted", "handed out"} \/ node[g] \in Listed}
QuotaExceeded == Cardinality(Slots) + 1 >= quota

-----------------------------------------------------------------------------
(* The daemon *)

serve == /\ daemon = "down"
         /\ daemon' = "connecting"
         /\ UNCHANGED <<hub, conn, device, op, history, faults>>

start_serving == /\ daemon = "connecting"
                 /\ daemon' = "up"
                 /\ UNCHANGED <<hub, conn, device, op, history, faults>>

\* With it go its connections, and the answer a command waits for.
daemon_ends ==
  /\ daemon # "down"
  /\ IF op.ipc THEN Fault ELSE UNCHANGED faults
  /\ daemon' = "down"
  /\ conn' = [g \in Guests |-> None]
  /\ op' = IF op.ipc THEN NoOp ELSE op
  /\ told' = IF op.ipc /\ op.cmd = "revoke" THEN told \cup {op.guest} ELSE told
  /\ UNCHANGED <<hub, device, wanted, cut, raced, orphaned>>

-----------------------------------------------------------------------------
(* waserver invite *)

invite(g) ==
  /\ op = NoOp /\ daemon # "down" /\ token[g] = None
  /\ op' = [cmd |-> "invite", guest |-> g, step |-> "token", ipc |-> TRUE]
  /\ UNCHANGED <<hub, daemon, conn, device, history, faults>>

At(cmd, step) == op.cmd = cmd /\ op.step = step

invite_error_message ==
  /\ At("invite", "token") /\ QuotaExceeded
  /\ op' = NoOp
  /\ UNCHANGED <<hub, daemon, conn, device, history, faults>>

get_registration_token ==
  /\ At("invite", "token") /\ ~QuotaExceeded
  /\ token' = Set(token, op.guest, "minted")
  /\ op' = [op EXCEPT !.step = "code"]
  /\ UNCHANGED <<node, quota, daemon, conn, device, history, faults>>

\* Either way the token was minted and the code never was: the slot stays
\* taken until the token expires.
not_connected_to_hub ==
  /\ At("invite", "code") /\ daemon # "up"
  /\ op' = NoOp
  /\ UNCHANGED <<hub, daemon, conn, device, history, faults>>

invite_failed ==
  /\ At("invite", "code") \/ (At("invite", "token") /\ ~QuotaExceeded)
  /\ Fault
  /\ token' = [token EXCEPT ![op.guest] = IF @ = None THEN "minted" ELSE @]
  /\ op' = NoOp
  /\ UNCHANGED <<node, quota, daemon, conn, device, history>>

mint_invite ==
  /\ At("invite", "code") /\ daemon = "up"
  /\ token' = [token EXCEPT ![op.guest] = IF @ = "minted" THEN "handed out" ELSE @]
  /\ op' = NoOp
  /\ UNCHANGED <<node, quota, daemon, conn, device, history, faults>>

token_expires(g) ==
  /\ token[g] \in {"minted", "handed out"}
  /\ token' = Set(token, g, "expired")
  /\ UNCHANGED <<node, quota, daemon, conn, device, op, history, faults>>

-----------------------------------------------------------------------------
(* Joining and leaving, on the device *)

join(g) ==
  /\ device[g] = None /\ token[g] \in {"handed out", "expired"}
  /\ device' = Set(device, g, "register")
  /\ UNCHANGED <<hub, daemon, conn, op, history, faults>>

register(g) ==
  /\ device[g] = "register" /\ token[g] = "handed out"
  /\ token' = Set(token, g, "used") /\ node' = Set(node, g, "registered")
  /\ device' = Set(device, g, "activate")
  /\ UNCHANGED <<quota, daemon, conn, op, history, faults>>

\* InviteRefusedError: the hub does not know the token any more.
register_refused(g) ==
  /\ device[g] = "register" /\ token[g] = "expired"
  /\ device' = Set(device, g, "out")
  /\ UNCHANGED <<hub, daemon, conn, op, history, faults>>

\* The hub registered the node; join returns before there is one to log out.
register_failed(g) ==
  /\ device[g] = "register" /\ token[g] = "handed out"
  /\ Fault
  /\ token' = Set(token, g, "used") /\ node' = Set(node, g, "registered")
  /\ device' = Set(device, g, "out") /\ orphaned' = orphaned \cup {g}
  /\ UNCHANGED <<quota, daemon, conn, op, wanted, cut, raced, told>>

\* External: node 1 endorses the guest, so the host node has to be there.
activate(g) ==
  /\ device[g] = "activate" /\ daemon = "up" /\ node[g] = "registered"
  /\ node' = Set(node, g, "activated")
  /\ device' = Set(device, g, "dial")
  /\ UNCHANGED <<token, quota, daemon, conn, op, history, faults>>

\* The hub brokers connections of activated nodes only.
Dials(g) == daemon = "up" /\ node[g] = "activated" /\ conn[g] = None

connect_quic(g) ==
  /\ device[g] = "dial" /\ Dials(g)
  /\ conn' = Set(conn, g, "accepted")
  /\ device' = Set(device, g, "fetch")
  /\ UNCHANGED <<hub, daemon, op, history, faults>>

fetch_info(g) ==
  /\ device[g] = "fetch" /\ conn[g] = "served"
  /\ device' = Set(device, g, "joined")
  /\ UNCHANGED <<hub, daemon, conn, op, history, faults>>

\* Where activate_and_fetch stands when the other side has gone.
Stuck(g) == \/ device[g] = "activate" /\ daemon # "up"
            \/ device[g] = "dial" /\ (daemon # "up" \/ node[g] # "activated")
            \/ device[g] = "fetch" /\ conn[g] = None

activate_and_fetch_failed_kept(g) ==
  /\ device[g] \in {"activate", "dial", "fetch"}
  /\ (Stuck(g) /\ UNCHANGED faults) \/ Fault
  /\ device' = Set(device, g, "out")
  /\ conn' = Set(conn, g, None)
  /\ UNCHANGED <<hub, daemon, op, history>>

\* A failure after the registration rolls it back.
activate_and_fetch_failed(g) ==
  /\ device[g] \in {"activate", "dial", "fetch"}
  /\ (Stuck(g) /\ UNCHANGED faults) \/ Fault
  /\ device' = Set(device, g, "logout")
  /\ conn' = Set(conn, g, None)
  /\ UNCHANGED <<hub, daemon, op, history>>

leave(g) ==
  /\ device[g] = "joined"
  /\ device' = Set(device, g, "leave")
  /\ conn' = Set(conn, g, None)
  /\ UNCHANGED <<hub, daemon, op, history, faults>>

logout(g) ==
  /\ device[g] \in {"logout", "leave"}
  /\ node' = Set(node, g, "gone")
  /\ device' = Set(device, g, "out")
  /\ UNCHANGED <<token, quota, daemon, conn, op, history, faults>>

\* Logged as a warning; the share is removed from the device all the same.
\* The library revokes the node, then deregisters it.
logout_failed(g) ==
  /\ device[g] \in {"logout", "leave"}
  /\ Fault
  /\ node' \in {node, Set(node, g, IF node[g] = "activated" THEN "revoked" ELSE node[g]),
                Set(node, g, "gone")}
  /\ device' = Set(device, g, "out") /\ orphaned' = orphaned \cup {g}
  /\ UNCHANGED <<token, quota, daemon, conn, op, wanted, cut, raced, told>>

\* The process of the app ends in the middle of joining or leaving.
device_crashes(g) ==
  /\ device[g] \notin {None, "joined", "out"}
  /\ Fault
  /\ device' = Set(device, g, "out") /\ orphaned' = orphaned \cup {g}
  /\ conn' = Set(conn, g, None)
  /\ UNCHANGED <<hub, daemon, op, wanted, cut, raced, told>>

-----------------------------------------------------------------------------
(* A connection on the host *)

handle_quic_conn(g) ==
  /\ device[g] = "joined" /\ Dials(g)
  /\ conn' = Set(conn, g, "accepted")
  /\ UNCHANGED <<hub, daemon, device, op, history, faults>>

\* group_info lists revoked nodes too; whether the node is still a member is
\* not asked.
resolve_identity(g) ==
  /\ conn[g] = "accepted" /\ node[g] \in Listed
  /\ conn' = Set(conn, g, "resolved")
  /\ UNCHANGED <<hub, daemon, device, op, history, faults>>

no_identity(g) ==
  /\ conn[g] = "accepted"
  /\ (node[g] \notin Listed /\ UNCHANGED faults) \/ Fault
  /\ conn' = Set(conn, g, None)
  /\ UNCHANGED <<hub, daemon, device, op, history>>

register_connection(g) ==
  /\ conn[g] = "resolved"
  /\ conn' = Set(conn, g, "served")
  /\ UNCHANGED <<hub, daemon, device, op, history, faults>>

unregister_connection(g) ==
  /\ conn[g] = "closing"
  /\ conn' = Set(conn, g, None)
  /\ UNCHANGED <<hub, daemon, device, op, history, faults>>

peer_gone(g) ==
  /\ conn[g] # None
  /\ conn' = Set(conn, g, None)
  /\ UNCHANGED <<hub, daemon, device, op, history, faults>>

-----------------------------------------------------------------------------
(* waserver revoke *)

\* Through the daemon where there is one, else with a restored copy of the
\* host node.
revoke(g) ==
  /\ op = NoOp /\ g \in wanted /\ node[g] \in Listed
  /\ op' = [cmd |-> "revoke", guest |-> g, step |-> "info", ipc |-> daemon # "down"]
  /\ UNCHANGED <<hub, daemon, conn, device, history, faults>>

want_out(g) ==
  /\ node[g] = "activated" /\ g \notin wanted
  /\ wanted' = wanted \cup {g}
  /\ UNCHANGED <<hub, daemon, conn, device, op, cut, raced, told, orphaned, faults>>

Step(step) == op' = [op EXCEPT !.step = step] /\ UNCHANGED told
Bail == op' = NoOp /\ told' = told \cup {op.guest}

group_info_activated_only ==
  /\ At("revoke", "info")
  /\ IF node[op.guest] = "activated" THEN Step("roster") ELSE Bail
  /\ UNCHANGED <<hub, daemon, conn, device, wanted, cut, raced, orphaned, faults>>

\* Unknown nodes and nodes that were never activated are refused; one that an
\* earlier attempt revoked is only deregistered.
group_info ==
  /\ At("revoke", "info")
  /\ CASE node[op.guest] = "activated" -> Step("roster")
       [] node[op.guest] = "revoked" -> Step("delete")
       [] OTHER -> Bail
  /\ UNCHANGED <<hub, daemon, conn, device, wanted, cut, raced, orphaned, faults>>

revoke_node ==
  /\ At("revoke", "roster")
  /\ IF node[op.guest] \in {"activated", "revoked"}
       THEN node' = Set(node, op.guest, "revoked") /\ Step("delete")
       ELSE Bail /\ UNCHANGED node
  /\ UNCHANGED <<token, quota, daemon, conn, device, wanted, cut, raced, orphaned, faults>>

\* An offline revoke has no connections to close.
Deregistered == IF op.ipc THEN [op EXCEPT !.step = "close"] ELSE NoOp

\* The backend answers 409 unless the roster says revoked, 404 (AlreadyGone)
\* for a node it does not have.
delete_node ==
  /\ At("revoke", "delete")
  /\ node' = Set(node, op.guest, "gone")
  /\ op' = Deregistered
  /\ UNCHANGED <<token, quota, daemon, conn, device, history, faults>>

\* A request fails, before or after the hub has done what it asks: the command
\* ends there, and no connection is closed.
revoke_failed ==
  /\ op.cmd = "revoke" /\ op.step # "close"
  /\ Fault
  /\ node' \in {node, [node EXCEPT ![op.guest] =
       CASE op.step = "roster" /\ @ \in Listed -> "revoked" [] op.step = "delete" -> "gone" [] OTHER -> @]}
  /\ Bail
  /\ UNCHANGED <<token, quota, daemon, conn, device, wanted, cut, raced, orphaned>>

close_connections_new_only ==
  /\ At("revoke", "close")
  /\ conn' = [conn EXCEPT ![op.guest] = IF @ = "resolved" THEN "closing" ELSE @]
  /\ cut' = cut \cup {op.guest}
  /\ op' = NoOp
  /\ UNCHANGED <<hub, daemon, device, wanted, raced, told, orphaned, faults>>

\* Only registered connections have a closer.
close_connections ==
  /\ At("revoke", "close")
  /\ conn' = [conn EXCEPT ![op.guest] = IF @ = "served" THEN "closing" ELSE @]
  /\ cut' = cut \cup {op.guest}
  /\ raced' = IF conn[op.guest] = "resolved" THEN raced \cup {op.guest} ELSE raced
  /\ op' = NoOp
  /\ UNCHANGED <<hub, daemon, device, wanted, told, orphaned, faults>>

-----------------------------------------------------------------------------
Revoking == group_info \/ revoke_node \/ delete_node \/ close_connections
Inviting == invite_error_message \/ get_registration_token \/ not_connected_to_hub \/ mint_invite

WCNext ==
  \/ serve \/ start_serving \/ daemon_ends
  \/ Inviting \/ invite_failed \/ Revoking \/ revoke_failed
  \/ \E g \in Guests :
       \/ invite(g) \/ token_expires(g) \/ want_out(g) \/ revoke(g)
       \/ join(g) \/ register(g) \/ register_refused(g) \/ register_failed(g) \/ activate(g)
       \/ connect_quic(g) \/ fetch_info(g) \/ activate_and_fetch_failed(g)
       \/ leave(g) \/ logout(g) \/ logout_failed(g) \/ device_crashes(g)
       \/ handle_quic_conn(g) \/ resolve_identity(g) \/ no_identity(g)
       \/ register_connection(g) \/ unregister_connection(g) \/ peer_gone(g)

WCSpec == WCInit /\ [][WCNext]_vars

\* An operator who wants a guest out repeats the command, between whatever
\* other commands there are; the commands and the tasks of the host run on.
WCLiveSpec ==
  /\ WCSpec
  /\ WF_vars(Inviting) /\ WF_vars(Revoking)
  /\ \A g \in Guests : SF_vars(revoke(g))

-----------------------------------------------------------------------------
(* Properties *)

\* What serving.rs promises of revoke_guest, "closes its live connections":
\* once a revoke through the daemon has succeeded the guest is not served,
\* unless its connection was past resolve_identity and not yet registered when
\* the closers were called.
RevokedNotServed == \A g \in cut : conn[g] = "served" => g \in raced

\* A node that takes a slot of the quota without any device behind it comes
\* from a logout, a registration or a device that failed: every other way out
\* of join logs the node out again.
SlotsAccounted ==
  \A g \in Guests : device[g] = "out" /\ node[g] \in Listed => g \in orphaned

\* to_guests shows every listed node as not revoked.  That is wrong only while
\* a revoke is between its two requests, after one that ended in an error, or
\* after a logout that failed half way.
ListedNotRevoked ==
  \A g \in Guests : node[g] = "revoked" => op.guest = g \/ g \in told \/ g \in orphaned

\* What the hub lists is right: slots without a device and revoked nodes come
\* from failures only (SlotsAccounted, ListedNotRevoked).
WCInv == WCTypeOK /\ SlotsAccounted /\ ListedNotRevoked

\* Revoking is safe to repeat: whatever request failed before, an operator who
\* keeps trying gets the node deregistered and its slot back.
RevokeCompletes ==
  \A g \in Guests : g \in wanted ~> node[g] = "gone"
=============================================================================
