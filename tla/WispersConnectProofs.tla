------------------------ MODULE WispersConnectProofs ------------------------
(***************************************************************************)
(* Membership over Wispers Connect for any number of guests, any quota and *)
(* any number of lost answers and crashes: what the hub lists is           *)
(* accounted for, and a guest that a revoke has cut off is not served.     *)
(***************************************************************************)
EXTENDS WispersConnect, TLAPS

\* Where a command can stand: an invite asks for a token its guest does not
\* have yet; a revoke is of a node the hub has had, and closes connections
\* through the daemon once the node is gone.
OpInv ==
  /\ op.cmd = None => op = NoOp
  /\ op.cmd # None => op.guest \in Guests
  /\ op.cmd = "invite" => op.step \in {"token", "code"}
  /\ At("invite", "token") => token[op.guest] = None
  /\ op.cmd = "revoke" => node[op.guest] # None
  /\ At("revoke", "close") => op.ipc /\ node[op.guest] = "gone"

\* The hub has a node only for a token that was redeemed, and has had one for
\* every device past registration.
NodesRedeemed ==
  \A g \in Guests :
    /\ node[g] # None => token[g] = "used"
    /\ device[g] \notin {None, "register", "out"} => node[g] # None

\* ListedNotRevoked, of a command that is still a revoke of that guest.
RevokedExplained ==
  \A g \in Guests : node[g] = "revoked" =>
    (op.cmd = "revoke" /\ op.guest = g) \/ g \in told \/ g \in orphaned

\* A guest that was cut off has no node any more, and so no connection that
\* was not past resolve_identity by then.
CutOff ==
  \A g \in cut : node[g] = "gone" /\ (conn[g] \in {"resolved", "served"} => g \in raced)

\* What the type invariant says of the functions the steps update.
Maps ==
  /\ token \in [Guests -> {None, "minted", "handed out", "used", "expired"}]
  /\ node \in [Guests -> Listed \cup {None, "gone"}]
  /\ conn \in [Guests -> {None, "accepted", "resolved", "served", "closing"}]
  /\ device \in [Guests -> {None, "register", "activate", "dial", "fetch", "joined",
                            "logout", "leave", "out"}]

WCIInv ==
  /\ WCTypeOK
  /\ OpInv
  /\ NodesRedeemed
  /\ SlotsAccounted
  /\ RevokedExplained
  /\ CutOff

LEMMA FaultBounded ==
  ASSUME faults \in 0 .. MaxFaults, Fault
  PROVE  faults' \in 0 .. MaxFaults
BY WCBounds DEF Fault

\* What a logout that fails can have done to the node: nothing, its first
\* request or both.
LEMMA LogoutFails ==
  ASSUME Maps, NEW g \in Guests, logout_failed(g)
  PROVE  /\ node' \in [Guests -> Listed \cup {None, "gone"}]
         /\ \A h \in Guests \ {g} : node'[h] = node[h]
         /\ node'[g] \in {node[g], "gone"} \/ (node[g] = "activated" /\ node'[g] = "revoked")
<1> USE DEF Maps, Listed, None, Set
<1>1. CASE node' = node
  BY <1>1
<1>2. CASE node' = Set(node, g, IF node[g] = "activated" THEN "revoked" ELSE node[g])
  BY <1>2
<1>3. CASE node' = Set(node, g, "gone")
  BY <1>3
<1> QED
  BY <1>1, <1>2, <1>3 DEF logout_failed

\* The same of a revoke that fails.
LEMMA RevokeFails ==
  ASSUME Maps, op.guest \in Guests, revoke_failed
  PROVE  /\ node' \in [Guests -> Listed \cup {None, "gone"}]
         /\ \A h \in Guests \ {op.guest} : node'[h] = node[h]
         /\ \/ node'[op.guest] \in {node[op.guest], "gone"}
            \/ node[op.guest] \in Listed /\ node'[op.guest] = "revoked"
<1> USE DEF Maps, Listed, None
<1>1. CASE node' = node
  BY <1>1
<1>2. CASE node' = [node EXCEPT ![op.guest] =
              CASE op.step = "roster" /\ @ \in Listed -> "revoked"
                [] op.step = "delete" -> "gone" [] OTHER -> @]
  BY <1>2
<1> QED
  BY <1>1, <1>2 DEF revoke_failed

LEMMA WCTypePreserved ==
  ASSUME WCTypeOK, OpInv, [WCNext]_vars
  PROVE  WCTypeOK'
<1> USE DEF WCTypeOK, None, Listed, hub, history, Set
<1>a. NoOp \in Op
  BY DEF Op, NoOp
<1>b. \A s \in {"code", "roster", "delete", "close"} : [op EXCEPT !.step = s] \in Op
  BY DEF Op
<1>c. \A c \in {"invite", "revoke"}, g \in Guests, s \in {"token", "info"}, b \in BOOLEAN :
        [cmd |-> c, guest |-> g, step |-> s, ipc |-> b] \in Op
  BY DEF Op
<1>d. Fault => faults' \in 0 .. MaxFaults
  BY FaultBounded
<1>e. op.cmd # None => op.guest \in Guests
  BY DEF OpInv
<1>1. CASE serve
  BY <1>1 DEF serve
<1>2. CASE start_serving
  BY <1>2 DEF start_serving
<1>3. CASE daemon_ends
  <2>1. faults' \in 0 .. MaxFaults
    BY <1>3, <1>d DEF daemon_ends
  <2>2. op' \in Op
    BY <1>3, <1>a DEF daemon_ends
  <2>3. told' \subseteq Guests
    BY <1>3, <1>e DEF daemon_ends
  <2> QED
    BY <1>3, <2>1, <2>2, <2>3 DEF daemon_ends
<1>4. CASE invite_error_message
  BY <1>4, <1>a DEF invite_error_message, At
<1>5. CASE get_registration_token
  BY <1>5, <1>b, <1>e DEF get_registration_token, At
<1>6. CASE not_connected_to_hub
  BY <1>6, <1>a DEF not_connected_to_hub, At
<1>7. CASE mint_invite
  BY <1>7, <1>a DEF mint_invite, At
<1>8. CASE invite_failed
  BY <1>8, <1>a, <1>d, <1>e DEF invite_failed, At
<1>9. CASE group_info
  <2>1. op.guest \in Guests
    BY <1>9, <1>e DEF group_info, At
  <2>2. op' \in Op /\ told' \subseteq Guests
    BY <1>9, <1>a, <1>b, <2>1 DEF group_info, Step, Bail
  <2> QED
    BY <1>9, <2>1, <2>2 DEF group_info
<1>10. CASE revoke_node
  <2>1. op.guest \in Guests
    BY <1>10, <1>e DEF revoke_node, At
  <2>2. op' \in Op /\ told' \subseteq Guests
    BY <1>10, <1>a, <1>b, <2>1 DEF revoke_node, Step, Bail
  <2> QED
    BY <1>10, <2>1, <2>2 DEF revoke_node
<1>11. CASE delete_node
  BY <1>11, <1>a, <1>b, <1>e DEF delete_node, At, Deregistered
<1>12. CASE close_connections
  BY <1>12, <1>a, <1>e DEF close_connections, At
<1>13. CASE revoke_failed
  <2>1. op.guest \in Guests
    BY <1>13, <1>e DEF revoke_failed
  <2>2. op' \in Op /\ told' \subseteq Guests
    BY <1>13, <1>a, <2>1 DEF revoke_failed, Bail
  <2>3. node' \in [Guests -> Listed \cup {None, "gone"}]
    BY <1>13, <2>1, RevokeFails DEF Maps
  <2> QED
    BY <1>13, <1>d, <2>2, <2>3 DEF revoke_failed
<1>14. ASSUME NEW g \in Guests, invite(g)
      PROVE  WCTypeOK'
  BY <1>14, <1>c DEF invite
<1>15. ASSUME NEW g \in Guests, token_expires(g)
      PROVE  WCTypeOK'
  BY <1>15 DEF token_expires
<1>16. ASSUME NEW g \in Guests, want_out(g)
      PROVE  WCTypeOK'
  BY <1>16 DEF want_out
<1>17. ASSUME NEW g \in Guests, revoke(g)
      PROVE  WCTypeOK'
  BY <1>17, <1>c DEF revoke
<1>18. ASSUME NEW g \in Guests, join(g)
      PROVE  WCTypeOK'
  BY <1>18 DEF join
<1>19. ASSUME NEW g \in Guests, register(g)
      PROVE  WCTypeOK'
  BY <1>19 DEF register
<1>20. ASSUME NEW g \in Guests, register_refused(g)
      PROVE  WCTypeOK'
  BY <1>20 DEF register_refused
<1>21. ASSUME NEW g \in Guests, register_failed(g)
      PROVE  WCTypeOK'
  BY <1>21, <1>d DEF register_failed
<1>22. ASSUME NEW g \in Guests, activate(g)
      PROVE  WCTypeOK'
  BY <1>22 DEF activate
<1>23. ASSUME NEW g \in Guests, connect_quic(g)
      PROVE  WCTypeOK'
  BY <1>23 DEF connect_quic, Dials
<1>24. ASSUME NEW g \in Guests, fetch_info(g)
      PROVE  WCTypeOK'
  BY <1>24 DEF fetch_info
<1>25. ASSUME NEW g \in Guests, activate_and_fetch_failed(g)
      PROVE  WCTypeOK'
  BY <1>25, <1>d DEF activate_and_fetch_failed
<1>26. ASSUME NEW g \in Guests, leave(g)
      PROVE  WCTypeOK'
  BY <1>26 DEF leave
<1>27. ASSUME NEW g \in Guests, logout(g)
      PROVE  WCTypeOK'
  BY <1>27 DEF logout
<1>28. ASSUME NEW g \in Guests, logout_failed(g)
      PROVE  WCTypeOK'
  BY <1>28, <1>d DEF logout_failed
<1>29. ASSUME NEW g \in Guests, device_crashes(g)
      PROVE  WCTypeOK'
  BY <1>29, <1>d DEF device_crashes
<1>30. ASSUME NEW g \in Guests, handle_quic_conn(g)
      PROVE  WCTypeOK'
  BY <1>30 DEF handle_quic_conn, Dials
<1>31. ASSUME NEW g \in Guests, resolve_identity(g)
      PROVE  WCTypeOK'
  BY <1>31 DEF resolve_identity
<1>32. ASSUME NEW g \in Guests, no_identity(g)
      PROVE  WCTypeOK'
  BY <1>32, <1>d DEF no_identity
<1>33. ASSUME NEW g \in Guests, register_connection(g)
      PROVE  WCTypeOK'
  BY <1>33 DEF register_connection
<1>34. ASSUME NEW g \in Guests, unregister_connection(g)
      PROVE  WCTypeOK'
  BY <1>34 DEF unregister_connection
<1>35. ASSUME NEW g \in Guests, peer_gone(g)
      PROVE  WCTypeOK'
  BY <1>35 DEF peer_gone
<1>36. CASE UNCHANGED vars
  BY <1>36 DEF vars
<1> QED
  BY <1>1, <1>2, <1>3, <1>4, <1>5, <1>6, <1>7, <1>8, <1>9, <1>10, <1>11,
     <1>12, <1>13, <1>14, <1>15, <1>16, <1>17, <1>18, <1>19, <1>20, <1>21,
     <1>22, <1>23, <1>24, <1>25, <1>26, <1>27, <1>28, <1>29, <1>30, <1>31,
     <1>32, <1>33, <1>34, <1>35, <1>36 DEF WCNext, Inviting, Revoking

LEMMA OpInvPreserved ==
  ASSUME WCIInv, [WCNext]_vars
  PROVE  OpInv'
<1>a. Maps /\ OpInv /\ NodesRedeemed
  BY DEF WCIInv, WCTypeOK, Maps
<1>b. \A s : LET o == [op EXCEPT !.step = s]
             IN  o.cmd = op.cmd /\ o.guest = op.guest /\ o.ipc = op.ipc /\ o.step = s
  BY DEF WCIInv, WCTypeOK, Op
<1> USE DEF Maps, OpInv, NodesRedeemed, NoOp, None, Listed, hub, Set, At
<1>1. CASE daemon_ends
  BY <1>1, <1>a DEF daemon_ends
<1>2. CASE invite_error_message
  BY <1>2, <1>a DEF invite_error_message
<1>3. CASE get_registration_token
  <2>1. op'.cmd = "invite" /\ op'.step = "code" /\ op'.guest = op.guest
    BY <1>3, <1>b DEF get_registration_token
  <2> QED
    BY <1>3, <1>a, <2>1 DEF get_registration_token
<1>4. CASE not_connected_to_hub
  BY <1>4, <1>a DEF not_connected_to_hub
<1>5. CASE mint_invite
  BY <1>5, <1>a DEF mint_invite
<1>6. CASE invite_failed
  BY <1>6, <1>a DEF invite_failed
<1>7. CASE group_info
  <2>1. CASE Bail
    BY <1>7, <1>a, <2>1 DEF group_info, Bail
  <2>2. CASE \E s \in {"roster", "delete"} : Step(s)
    <3>1. op'.cmd = "revoke" /\ op'.guest = op.guest /\ op'.step # "close"
      BY <1>7, <1>b, <2>2 DEF group_info, Step
    <3> QED
      BY <1>7, <1>a, <3>1 DEF group_info
  <2> QED
    BY <1>7, <2>1, <2>2 DEF group_info
<1>8. CASE revoke_node
  <2>1. CASE Bail
    BY <1>8, <1>a, <2>1 DEF revoke_node, Bail
  <2>2. CASE node' = Set(node, op.guest, "revoked") /\ Step("delete")
    <3>1. op'.cmd = "revoke" /\ op'.guest = op.guest /\ op'.step # "close"
      BY <1>8, <1>b, <2>2 DEF revoke_node, Step
    <3> QED
      BY <1>8, <1>a, <2>2, <3>1 DEF revoke_node
  <2> QED
    BY <1>8, <2>1, <2>2 DEF revoke_node
<1>9. CASE delete_node
  <2>1. op' = NoOp \/ (op'.cmd = "revoke" /\ op'.guest = op.guest /\ op'.ipc /\ op'.step = "close")
    BY <1>9, <1>b DEF delete_node, Deregistered
  <2>2. op.guest \in Guests /\ node'[op.guest] = "gone"
    BY <1>9, <1>a DEF delete_node
  <2> QED
    BY <2>1, <2>2
<1>10. CASE close_connections
  BY <1>10, <1>a DEF close_connections
<1>11. CASE revoke_failed
  <2>1. op.guest \in Guests
    BY <1>11, <1>a DEF revoke_failed
  <2>2. /\ \A h \in Guests \ {op.guest} : node'[h] = node[h]
        /\ \/ node'[op.guest] \in {node[op.guest], "gone"}
           \/ node[op.guest] \in Listed /\ node'[op.guest] = "revoked"
    BY <1>11, <1>a, <2>1, RevokeFails
  <2>3. /\ op.cmd = "revoke" /\ op' = NoOp /\ told' = told \cup {op.guest}
        /\ UNCHANGED <<token, conn, device, cut, raced, orphaned>>
    BY <1>11 DEF revoke_failed, Bail
  <2> QED
    BY <1>a, <2>1, <2>2, <2>3
<1>12. ASSUME NEW g \in Guests, invite(g)
      PROVE  OpInv'
  BY <1>12, <1>a DEF invite
<1>13. ASSUME NEW g \in Guests, token_expires(g)
      PROVE  OpInv'
  BY <1>13, <1>a DEF token_expires
<1>14. ASSUME NEW g \in Guests, revoke(g)
      PROVE  OpInv'
  BY <1>14, <1>a DEF revoke
<1>15. ASSUME NEW g \in Guests, register(g)
      PROVE  OpInv'
  BY <1>15, <1>a DEF register
<1>16. ASSUME NEW g \in Guests, register_failed(g)
      PROVE  OpInv'
  BY <1>16, <1>a DEF register_failed
<1>17. ASSUME NEW g \in Guests, activate(g)
      PROVE  OpInv'
  BY <1>17, <1>a DEF activate
<1>18. ASSUME NEW g \in Guests, logout(g)
      PROVE  OpInv'
  BY <1>18, <1>a DEF logout
<1>19. ASSUME NEW g \in Guests, logout_failed(g)
      PROVE  OpInv'
  <2>1. /\ \A h \in Guests \ {g} : node'[h] = node[h]
        /\ node'[g] \in {node[g], "gone"} \/ (node[g] = "activated" /\ node'[g] = "revoked")
    BY <1>19, <1>a, LogoutFails
  <2>2. /\ device[g] \in {"logout", "leave"} /\ device' = Set(device, g, "out")
        /\ orphaned' = orphaned \cup {g}
        /\ UNCHANGED <<token, conn, op, cut, raced, told>>
    BY <1>19 DEF logout_failed
  <2> QED
    BY <1>a, <2>1, <2>2
<1>20. CASE UNCHANGED <<op, token, node>>
  BY <1>20, <1>a
<1> QED
  BY <1>1, <1>2, <1>3, <1>4, <1>5, <1>6, <1>7, <1>8, <1>9, <1>10, <1>11,
     <1>12, <1>13, <1>14, <1>15, <1>16, <1>17, <1>18, <1>19, <1>20 DEF
     WCNext, vars, Inviting, Revoking, serve, start_serving, want_out, join,
     register_refused, connect_quic, fetch_info, activate_and_fetch_failed,
     leave, device_crashes, handle_quic_conn, resolve_identity, no_identity,
     register_connection, unregister_connection, peer_gone

LEMMA NodesRedeemedPreserved ==
  ASSUME WCIInv, [WCNext]_vars
  PROVE  NodesRedeemed'
<1>a. Maps /\ OpInv /\ NodesRedeemed
  BY DEF WCIInv, WCTypeOK, Maps
<1> USE DEF Maps, OpInv, NodesRedeemed, None, Listed, hub, Set, At
<1>1. CASE get_registration_token
  BY <1>1, <1>a DEF get_registration_token
<1>2. CASE mint_invite
  BY <1>2, <1>a DEF mint_invite
<1>3. CASE invite_failed
  BY <1>3, <1>a DEF invite_failed
<1>4. CASE revoke_node
  <2>1. op.guest \in Guests
    BY <1>4, <1>a DEF revoke_node
  <2>2. CASE UNCHANGED node
    BY <1>4, <1>a, <2>2 DEF revoke_node
  <2>3. CASE node[op.guest] # None /\ node' = Set(node, op.guest, "revoked")
    BY <1>4, <1>a, <2>1, <2>3 DEF revoke_node
  <2> QED
    BY <1>4, <2>2, <2>3 DEF revoke_node
<1>5. CASE delete_node
  BY <1>5, <1>a DEF delete_node, Deregistered
<1>6. CASE revoke_failed
  <2>1. op.guest \in Guests
    BY <1>6, <1>a DEF revoke_failed
  <2>2. /\ \A h \in Guests \ {op.guest} : node'[h] = node[h]
        /\ \/ node'[op.guest] \in {node[op.guest], "gone"}
           \/ node[op.guest] \in Listed /\ node'[op.guest] = "revoked"
    BY <1>6, <1>a, <2>1, RevokeFails
  <2>3. /\ op.cmd = "revoke" /\ op' = NoOp /\ told' = told \cup {op.guest}
        /\ UNCHANGED <<token, conn, device, cut, raced, orphaned>>
    BY <1>6 DEF revoke_failed, Bail
  <2> QED
    BY <1>a, <2>1, <2>2, <2>3
<1>7. ASSUME NEW g \in Guests, token_expires(g)
      PROVE  NodesRedeemed'
  BY <1>7, <1>a DEF token_expires
<1>8. ASSUME NEW g \in Guests, join(g)
      PROVE  NodesRedeemed'
  BY <1>8, <1>a DEF join
<1>9. ASSUME NEW g \in Guests, register(g)
      PROVE  NodesRedeemed'
  BY <1>9, <1>a DEF register
<1>10. ASSUME NEW g \in Guests, register_refused(g)
      PROVE  NodesRedeemed'
  BY <1>10, <1>a DEF register_refused
<1>11. ASSUME NEW g \in Guests, register_failed(g)
      PROVE  NodesRedeemed'
  BY <1>11, <1>a DEF register_failed
<1>12. ASSUME NEW g \in Guests, activate(g)
      PROVE  NodesRedeemed'
  BY <1>12, <1>a DEF activate
<1>13. ASSUME NEW g \in Guests, connect_quic(g)
      PROVE  NodesRedeemed'
  BY <1>13, <1>a DEF connect_quic, Dials
<1>14. ASSUME NEW g \in Guests, fetch_info(g)
      PROVE  NodesRedeemed'
  BY <1>14, <1>a DEF fetch_info
<1>15. ASSUME NEW g \in Guests, activate_and_fetch_failed(g)
      PROVE  NodesRedeemed'
  BY <1>15, <1>a DEF activate_and_fetch_failed
<1>16. ASSUME NEW g \in Guests, leave(g)
      PROVE  NodesRedeemed'
  BY <1>16, <1>a DEF leave
<1>17. ASSUME NEW g \in Guests, logout(g)
      PROVE  NodesRedeemed'
  BY <1>17, <1>a DEF logout
<1>18. ASSUME NEW g \in Guests, logout_failed(g)
      PROVE  NodesRedeemed'
  <2>1. /\ \A h \in Guests \ {g} : node'[h] = node[h]
        /\ node'[g] \in {node[g], "gone"} \/ (node[g] = "activated" /\ node'[g] = "revoked")
    BY <1>18, <1>a, LogoutFails
  <2>2. /\ device[g] \in {"logout", "leave"} /\ device' = Set(device, g, "out")
        /\ orphaned' = orphaned \cup {g}
        /\ UNCHANGED <<token, conn, op, cut, raced, told>>
    BY <1>18 DEF logout_failed
  <2>3. node[g] # None
    BY <1>a, <2>2
  <2>4. ASSUME NEW h \in Guests
        PROVE  /\ node'[h] # None => token'[h] = "used"
               /\ device'[h] \notin {None, "register", "out"} => node'[h] # None
    <3>1. CASE h = g
      BY <1>a, <2>2, <2>3, <3>1
    <3>2. CASE h # g
      BY <1>a, <2>1, <2>2, <3>2
    <3> QED
      BY <3>1, <3>2
  <2> QED
    BY <2>4
<1>19. ASSUME NEW g \in Guests, device_crashes(g)
      PROVE  NodesRedeemed'
  BY <1>19, <1>a DEF device_crashes
<1>20. CASE UNCHANGED <<token, node, device>>
  BY <1>20, <1>a
<1> QED
  BY <1>1, <1>2, <1>3, <1>4, <1>5, <1>6, <1>7, <1>8, <1>9, <1>10, <1>11,
     <1>12, <1>13, <1>14, <1>15, <1>16, <1>17, <1>18, <1>19, <1>20 DEF
     WCNext, vars, Inviting, Revoking, serve, start_serving, daemon_ends,
     invite_error_message, not_connected_to_hub, group_info,
     close_connections, invite, want_out, revoke, handle_quic_conn,
     resolve_identity, no_identity, register_connection,
     unregister_connection, peer_gone

LEMMA SlotsAccountedPreserved ==
  ASSUME WCIInv, [WCNext]_vars
  PROVE  SlotsAccounted'
<1>a. Maps /\ OpInv /\ NodesRedeemed /\ SlotsAccounted
  BY DEF WCIInv, WCTypeOK, Maps
<1> USE DEF Maps, OpInv, NodesRedeemed, SlotsAccounted, None, Listed, hub,
            history, Set, At
<1>1. CASE revoke_node
  BY <1>1, <1>a DEF revoke_node, Step, Bail
<1>2. CASE delete_node
  BY <1>2, <1>a DEF delete_node, Deregistered
<1>3. CASE revoke_failed
  <2>1. op.guest \in Guests
    BY <1>3, <1>a DEF revoke_failed
  <2>2. /\ \A h \in Guests \ {op.guest} : node'[h] = node[h]
        /\ \/ node'[op.guest] \in {node[op.guest], "gone"}
           \/ node[op.guest] \in Listed /\ node'[op.guest] = "revoked"
    BY <1>3, <1>a, <2>1, RevokeFails
  <2>3. /\ op.cmd = "revoke" /\ op' = NoOp /\ told' = told \cup {op.guest}
        /\ UNCHANGED <<token, conn, device, cut, raced, orphaned>>
    BY <1>3 DEF revoke_failed, Bail
  <2> QED
    BY <1>a, <2>1, <2>2, <2>3
<1>4. ASSUME NEW g \in Guests, join(g)
      PROVE  SlotsAccounted'
  BY <1>4, <1>a DEF join
<1>5. ASSUME NEW g \in Guests, register(g)
      PROVE  SlotsAccounted'
  BY <1>5, <1>a DEF register
<1>6. ASSUME NEW g \in Guests, register_refused(g)
      PROVE  SlotsAccounted'
  BY <1>6, <1>a DEF register_refused
<1>7. ASSUME NEW g \in Guests, register_failed(g)
      PROVE  SlotsAccounted'
  BY <1>7, <1>a DEF register_failed
<1>8. ASSUME NEW g \in Guests, activate(g)
      PROVE  SlotsAccounted'
  BY <1>8, <1>a DEF activate
<1>9. ASSUME NEW g \in Guests, connect_quic(g)
      PROVE  SlotsAccounted'
  BY <1>9, <1>a DEF connect_quic, Dials
<1>10. ASSUME NEW g \in Guests, fetch_info(g)
      PROVE  SlotsAccounted'
  BY <1>10, <1>a DEF fetch_info
<1>11. ASSUME NEW g \in Guests, activate_and_fetch_failed(g)
      PROVE  SlotsAccounted'
  BY <1>11, <1>a DEF activate_and_fetch_failed
<1>12. ASSUME NEW g \in Guests, leave(g)
      PROVE  SlotsAccounted'
  BY <1>12, <1>a DEF leave
<1>13. ASSUME NEW g \in Guests, logout(g)
      PROVE  SlotsAccounted'
  BY <1>13, <1>a DEF logout
<1>14. ASSUME NEW g \in Guests, logout_failed(g)
      PROVE  SlotsAccounted'
  <2>1. /\ \A h \in Guests \ {g} : node'[h] = node[h]
        /\ node'[g] \in {node[g], "gone"} \/ (node[g] = "activated" /\ node'[g] = "revoked")
    BY <1>14, <1>a, LogoutFails
  <2>2. /\ device[g] \in {"logout", "leave"} /\ device' = Set(device, g, "out")
        /\ orphaned' = orphaned \cup {g}
        /\ UNCHANGED <<token, conn, op, cut, raced, told>>
    BY <1>14 DEF logout_failed
  <2> QED
    BY <1>a, <2>1, <2>2
<1>15. ASSUME NEW g \in Guests, device_crashes(g)
      PROVE  SlotsAccounted'
  BY <1>15, <1>a DEF device_crashes
<1>16. CASE UNCHANGED <<device, node, orphaned>>
  BY <1>16, <1>a
<1> QED
  BY <1>1, <1>2, <1>3, <1>4, <1>5, <1>6, <1>7, <1>8, <1>9, <1>10, <1>11,
     <1>12, <1>13, <1>14, <1>15, <1>16 DEF WCNext, vars, Inviting, Revoking,
     serve, start_serving, daemon_ends, invite_error_message,
     get_registration_token, not_connected_to_hub, mint_invite,
     invite_failed, group_info, close_connections, invite, token_expires,
     want_out, revoke, handle_quic_conn, resolve_identity, no_identity,
     register_connection, unregister_connection, peer_gone

LEMMA RevokedExplainedPreserved ==
  ASSUME WCIInv, [WCNext]_vars
  PROVE  RevokedExplained'
<1>a. Maps /\ OpInv /\ RevokedExplained
  BY DEF WCIInv, WCTypeOK, Maps
<1>b. \A s : LET o == [op EXCEPT !.step = s]
             IN  o.cmd = op.cmd /\ o.guest = op.guest /\ o.ipc = op.ipc /\ o.step = s
  BY DEF WCIInv, WCTypeOK, Op
<1> USE DEF Maps, OpInv, RevokedExplained, NoOp, None, Listed, hub, history,
            Set, At
<1>1. CASE daemon_ends
  BY <1>1, <1>a DEF daemon_ends
<1>2. CASE invite_error_message
  BY <1>2, <1>a DEF invite_error_message
<1>3. CASE get_registration_token
  BY <1>3, <1>a DEF get_registration_token
<1>4. CASE not_connected_to_hub
  BY <1>4, <1>a DEF not_connected_to_hub
<1>5. CASE mint_invite
  BY <1>5, <1>a DEF mint_invite
<1>6. CASE invite_failed
  BY <1>6, <1>a DEF invite_failed
<1>7. CASE group_info
  <2>1. CASE Bail
    BY <1>7, <1>a, <2>1 DEF group_info, Bail
  <2>2. CASE \E s \in {"roster", "delete"} : Step(s)
    <3>1. op'.cmd = "revoke" /\ op'.guest = op.guest /\ UNCHANGED told
      BY <1>7, <1>b, <2>2 DEF group_info, Step
    <3> QED
      BY <1>7, <1>a, <3>1 DEF group_info
  <2> QED
    BY <1>7, <2>1, <2>2 DEF group_info
<1>8. CASE revoke_node
  <2>1. CASE Bail /\ UNCHANGED node
    BY <1>8, <1>a, <2>1 DEF revoke_node, Bail
  <2>2. CASE node' = Set(node, op.guest, "revoked") /\ Step("delete")
    <3>1. op'.cmd = "revoke" /\ op'.guest = op.guest /\ UNCHANGED told
      BY <1>8, <1>b, <2>2 DEF revoke_node, Step
    <3> QED
      BY <1>8, <1>a, <2>2, <3>1 DEF revoke_node
  <2> QED
    BY <1>8, <2>1, <2>2 DEF revoke_node
<1>9. CASE delete_node
  BY <1>9, <1>a DEF delete_node, Deregistered
<1>10. CASE close_connections
  BY <1>10, <1>a DEF close_connections
<1>11. CASE revoke_failed
  <2>1. op.guest \in Guests
    BY <1>11, <1>a DEF revoke_failed
  <2>2. /\ \A h \in Guests \ {op.guest} : node'[h] = node[h]
        /\ \/ node'[op.guest] \in {node[op.guest], "gone"}
           \/ node[op.guest] \in Listed /\ node'[op.guest] = "revoked"
    BY <1>11, <1>a, <2>1, RevokeFails
  <2>3. /\ op.cmd = "revoke" /\ op' = NoOp /\ told' = told \cup {op.guest}
        /\ UNCHANGED <<token, conn, device, cut, raced, orphaned>>
    BY <1>11 DEF revoke_failed, Bail
  <2> QED
    BY <1>a, <2>1, <2>2, <2>3
<1>12. ASSUME NEW g \in Guests, invite(g)
      PROVE  RevokedExplained'
  BY <1>12, <1>a DEF invite
<1>13. ASSUME NEW g \in Guests, revoke(g)
      PROVE  RevokedExplained'
  BY <1>13, <1>a DEF revoke
<1>14. ASSUME NEW g \in Guests, register(g)
      PROVE  RevokedExplained'
  BY <1>14, <1>a DEF register
<1>15. ASSUME NEW g \in Guests, register_failed(g)
      PROVE  RevokedExplained'
  BY <1>15, <1>a DEF register_failed
<1>16. ASSUME NEW g \in Guests, activate(g)
      PROVE  RevokedExplained'
  BY <1>16, <1>a DEF activate
<1>17. ASSUME NEW g \in Guests, logout(g)
      PROVE  RevokedExplained'
  BY <1>17, <1>a DEF logout
<1>18. ASSUME NEW g \in Guests, logout_failed(g)
      PROVE  RevokedExplained'
  <2>1. /\ \A h \in Guests \ {g} : node'[h] = node[h]
        /\ node'[g] \in {node[g], "gone"} \/ (node[g] = "activated" /\ node'[g] = "revoked")
    BY <1>18, <1>a, LogoutFails
  <2>2. /\ device[g] \in {"logout", "leave"} /\ device' = Set(device, g, "out")
        /\ orphaned' = orphaned \cup {g}
        /\ UNCHANGED <<token, conn, op, cut, raced, told>>
    BY <1>18 DEF logout_failed
  <2> QED
    BY <1>a, <2>1, <2>2
<1>19. ASSUME NEW g \in Guests, device_crashes(g)
      PROVE  RevokedExplained'
  BY <1>19, <1>a DEF device_crashes
<1>20. CASE UNCHANGED <<node, op, told, orphaned>>
  BY <1>20, <1>a
<1> QED
  BY <1>1, <1>2, <1>3, <1>4, <1>5, <1>6, <1>7, <1>8, <1>9, <1>10, <1>11,
     <1>12, <1>13, <1>14, <1>15, <1>16, <1>17, <1>18, <1>19, <1>20 DEF
     WCNext, vars, Inviting, Revoking, serve, start_serving, token_expires,
     want_out, join, register_refused, connect_quic, fetch_info,
     activate_and_fetch_failed, leave, handle_quic_conn, resolve_identity,
     no_identity, register_connection, unregister_connection, peer_gone

LEMMA CutOffPreserved ==
  ASSUME WCIInv, [WCNext]_vars
  PROVE  CutOff'
<1>a. Maps /\ OpInv /\ NodesRedeemed /\ CutOff /\ cut \subseteq Guests
  BY DEF WCIInv, WCTypeOK, Maps
<1> USE DEF Maps, OpInv, NodesRedeemed, CutOff, None, Listed, hub, history,
            Set, At
<1>1. CASE daemon_ends
  BY <1>1, <1>a DEF daemon_ends
<1>2. CASE revoke_node
  BY <1>2, <1>a DEF revoke_node, Step, Bail
<1>3. CASE delete_node
  BY <1>3, <1>a DEF delete_node, Deregistered
<1>4. CASE close_connections
  <2>1. op.guest \in Guests /\ node[op.guest] = "gone" /\ UNCHANGED node
    BY <1>4, <1>a DEF close_connections
  <2>2. ASSUME NEW g \in cut'
        PROVE  node'[g] = "gone" /\ (conn'[g] \in {"resolved", "served"} => g \in raced')
    <3>1. CASE g = op.guest
      BY <1>4, <1>a, <2>1, <3>1 DEF close_connections
    <3>2. CASE g # op.guest
      BY <1>4, <1>a, <2>1, <2>2, <3>2 DEF close_connections
    <3> QED
      BY <3>1, <3>2
  <2> QED
    BY <2>2
<1>5. CASE revoke_failed
  <2>1. op.guest \in Guests
    BY <1>5, <1>a DEF revoke_failed
  <2>2. /\ \A h \in Guests \ {op.guest} : node'[h] = node[h]
        /\ \/ node'[op.guest] \in {node[op.guest], "gone"}
           \/ node[op.guest] \in Listed /\ node'[op.guest] = "revoked"
    BY <1>5, <1>a, <2>1, RevokeFails
  <2>3. /\ op.cmd = "revoke" /\ op' = NoOp /\ told' = told \cup {op.guest}
        /\ UNCHANGED <<token, conn, device, cut, raced, orphaned>>
    BY <1>5 DEF revoke_failed, Bail
  <2>4. \A h \in cut : node[h] = "gone" => node'[h] = "gone"
    BY <1>a, <2>2
  <2> QED
    BY <1>a, <2>3, <2>4
<1>6. ASSUME NEW g \in Guests, register(g)
      PROVE  CutOff'
  BY <1>6, <1>a DEF register
<1>7. ASSUME NEW g \in Guests, register_failed(g)
      PROVE  CutOff'
  BY <1>7, <1>a DEF register_failed
<1>8. ASSUME NEW g \in Guests, activate(g)
      PROVE  CutOff'
  BY <1>8, <1>a DEF activate
<1>9. ASSUME NEW g \in Guests, connect_quic(g)
      PROVE  CutOff'
  BY <1>9, <1>a DEF connect_quic, Dials
<1>10. ASSUME NEW g \in Guests, activate_and_fetch_failed(g)
      PROVE  CutOff'
  BY <1>10, <1>a DEF activate_and_fetch_failed
<1>11. ASSUME NEW g \in Guests, leave(g)
      PROVE  CutOff'
  BY <1>11, <1>a DEF leave
<1>12. ASSUME NEW g \in Guests, logout(g)
      PROVE  CutOff'
  BY <1>12, <1>a DEF logout
<1>13. ASSUME NEW g \in Guests, logout_failed(g)
      PROVE  CutOff'
  <2>1. /\ \A h \in Guests \ {g} : node'[h] = node[h]
        /\ node'[g] \in {node[g], "gone"} \/ (node[g] = "activated" /\ node'[g] = "revoked")
    BY <1>13, <1>a, LogoutFails
  <2>2. /\ device[g] \in {"logout", "leave"} /\ device' = Set(device, g, "out")
        /\ orphaned' = orphaned \cup {g}
        /\ UNCHANGED <<token, conn, op, cut, raced, told>>
    BY <1>13 DEF logout_failed
  <2>3. \A h \in cut : node[h] = "gone" => node'[h] = "gone"
    BY <1>a, <2>1
  <2> QED
    BY <1>a, <2>2, <2>3
<1>14. ASSUME NEW g \in Guests, device_crashes(g)
      PROVE  CutOff'
  BY <1>14, <1>a DEF device_crashes
<1>15. ASSUME NEW g \in Guests, handle_quic_conn(g)
      PROVE  CutOff'
  BY <1>15, <1>a DEF handle_quic_conn, Dials
<1>16. ASSUME NEW g \in Guests, resolve_identity(g)
      PROVE  CutOff'
  BY <1>16, <1>a DEF resolve_identity
<1>17. ASSUME NEW g \in Guests, no_identity(g)
      PROVE  CutOff'
  BY <1>17, <1>a DEF no_identity
<1>18. ASSUME NEW g \in Guests, register_connection(g)
      PROVE  CutOff'
  BY <1>18, <1>a DEF register_connection
<1>19. ASSUME NEW g \in Guests, unregister_connection(g)
      PROVE  CutOff'
  BY <1>19, <1>a DEF unregister_connection
<1>20. ASSUME NEW g \in Guests, peer_gone(g)
      PROVE  CutOff'
  BY <1>20, <1>a DEF peer_gone
<1>21. CASE UNCHANGED <<cut, node, conn, raced>>
  BY <1>21, <1>a
<1> QED
  BY <1>1, <1>2, <1>3, <1>4, <1>5, <1>6, <1>7, <1>8, <1>9, <1>10, <1>11,
     <1>12, <1>13, <1>14, <1>15, <1>16, <1>17, <1>18, <1>19, <1>20, <1>21
     DEF WCNext, vars, Inviting, Revoking, serve, start_serving,
     invite_error_message, get_registration_token, not_connected_to_hub,
     mint_invite, invite_failed, group_info, invite, token_expires,
     want_out, revoke, join, register_refused, fetch_info

-----------------------------------------------------------------------------
(* Theorems *)

\* The inductive invariant: with what a device, a token and a command can be
\* at, every node, token and connection stays explained whatever request of
\* join, leave, invite or revoke fails and wherever a process ends.
THEOREM WCInvariant == WCSpec => []WCIInv
<1>1. WCInit => WCIInv
  BY WCBounds DEF WCInit, WCIInv, WCTypeOK, OpInv, NodesRedeemed, SlotsAccounted,
                  RevokedExplained, CutOff, Op, NoOp, None, Listed, At
<1>2. WCIInv /\ [WCNext]_vars => WCIInv'
  <2> SUFFICES ASSUME WCIInv, [WCNext]_vars
               PROVE  WCIInv'
    OBVIOUS
  <2>1. WCTypeOK'
    BY WCTypePreserved DEF WCIInv
  <2> QED
    BY <2>1, OpInvPreserved, NodesRedeemedPreserved, SlotsAccountedPreserved,
       RevokedExplainedPreserved, CutOffPreserved DEF WCIInv
<1> QED
  BY <1>1, <1>2, PTL DEF WCSpec

\* What group_info lists is right: a slot without a device and a node that is
\* still listed after its revocation come from failures only.
THEOREM ListingAccounted == WCSpec => []WCInv
<1>1. WCIInv => WCInv
  BY DEF WCIInv, WCInv, RevokedExplained, ListedNotRevoked
<1> QED
  BY <1>1, WCInvariant, PTL

\* A revoke through the daemon that succeeded leaves its guest unserved,
\* unless the connection was between resolve_identity and
\* register_connection when close_connections ran.
THEOREM RevokedIsCutOff == WCSpec => []RevokedNotServed
<1>1. WCIInv => RevokedNotServed
  BY DEF WCIInv, CutOff, RevokedNotServed
<1> QED
  BY <1>1, WCInvariant, PTL
=============================================================================
