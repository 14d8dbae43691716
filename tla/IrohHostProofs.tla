--------------------------- MODULE IrohHostProofs ---------------------------
(***************************************************************************)
(* The iroh host node, for any number of peers, connections and invites:   *)
(* it uses the membership tables only through StateDb's methods, and its   *)
(* invariants about served identities and revocation hold.                 *)
(***************************************************************************)
EXTENDS IrohHost, StateDbProofs

\* A call of a method that removes no row, or none.
KeepsRows ==
  \/ \E s \in Secrets, u \in Users : create_invite(s, u)
  \/ \E s \in Secrets, p \in Peers : redeem_invite(s, p)
  \/ \E n \in Numbers : revoke_guest(n)
  \/ Tick
  \/ UNCHANGED dbVars

\* Only the second half of a DELETE removes rows.
LEMMA StepsKeepRows ==
  ASSUME [Next]_vars
  PROVE  KeepsRows \/ \E l \in leaving : delete_guest_remove(l)
<1>1. ASSUME NEW c \in Conns, NEW s \in Secrets,
             post_activation(c, s) \/ post_activation_again(c, s)
      PROVE  KeepsRows
  <2>1. PeerOf(c) \in Peers
    BY DEF PeerOf, Conns
  <2> QED
    BY <1>1, <2>1 DEF post_activation, post_activation_again, KeepsRows
<1>2. ASSUME NEW s \in Secrets, NEW u \in Users, invite(s, u)
      PROVE  KeepsRows
  BY <1>2 DEF invite, KeepsRows
<1>3. ASSUME NEW n \in Numbers, revoke(n)
      PROVE  KeepsRows
  BY <1>3 DEF revoke, KeepsRows
<1>4. ASSUME NEW n \in cli, cli_revoke(n)
      PROVE  KeepsRows
  <2>1. CASE revoke_guest(n)
    <3>1. n \in Numbers
      BY <2>1 DEF revoke_guest, Numbers
    <3> QED
      BY <2>1, <3>1 DEF KeepsRows
  <2>2. CASE UNCHANGED dbVars
    BY <2>2 DEF KeepsRows
  <2> QED
    BY <1>4, <2>1, <2>2 DEF cli_revoke
<1>5. CASE clock_ticks
  BY <1>5 DEF clock_ticks, KeepsRows
<1>6. ASSUME NEW c \in Conns,
             \/ accept(c) \/ ConnTask(c) \/ lookup_failed(c) \/ activation_stream(c)
             \/ activation_answered(c) \/ peer_gone(c)
             \/ \E r \in Requests : delete_guest_lookup(c, r)
      PROVE  UNCHANGED dbVars
  BY <1>6 DEF accept, ConnTask, lookup_failed, activation_stream, activation_answered,
              peer_gone, delete_guest_lookup, lookup_revoked, lookup_guest, lookup_unknown,
              activation_ended, activation_refused, activation_failed, recheck_guest,
              recheck_refused, refusal_grace_over, register_connection,
              unregister_connection
<1>7. ASSUME NEW a \in Actors, shutdown(a) \/ CloseTask(a)
      PROVE  UNCHANGED dbVars
  BY <1>7 DEF shutdown, CloseTask, close_connections, closes_done, closes_given_up,
              close_endpoint
<1>8. ASSUME exit \/ crash \/ start \/ \E n \in Numbers : cli_connect_failed(n)
      PROVE  UNCHANGED dbVars
  BY <1>8 DEF exit, crash, Terminate, start, cli_connect_failed
<1>9. ASSUME UNCHANGED vars
      PROVE  UNCHANGED dbVars
  BY <1>9 DEF vars
<1>10. UNCHANGED dbVars => KeepsRows
  BY DEF KeepsRows
<1> QED
  BY <1>1, <1>2, <1>3, <1>4, <1>5, <1>6, <1>7, <1>8, <1>9, <1>10 DEF Next

\* Every step of the host, its guests, its operator and an offline CLI is one
\* call of a StateDb method or leaves the tables alone.
LEMMA StepsUseDb == [Next]_vars => [DbNext]_dbVars
<1> SUFFICES ASSUME [Next]_vars
             PROVE  DbNext \/ UNCHANGED dbVars
  OBVIOUS
<1>1. ASSUME NEW l \in leaving, delete_guest_remove(l)
      PROVE  DbNext \/ UNCHANGED dbVars
  <2>1. remove_guest(l.number)
    BY <1>1 DEF delete_guest_remove
  <2>2. CASE l.number \in Numbers
    BY <2>1, <2>2 DEF DbNext
  <2>3. CASE l.number \notin Numbers
    BY <2>1, <2>3 DEF remove_guest, Numbers, dbVars
  <2> QED
    BY <2>2, <2>3
<1> QED
  BY <1>1, StepsKeepRows DEF KeepsRows, DbNext

\* The host implements StateDb's specification: what is proved of the tables
\* under any sequence of calls holds of them in the host.
THEOREM HostImplementsDb == Spec => DbSpec
<1>1. Init => DbInit
  BY DEF Init
<1> QED
  BY <1>1, StepsUseDb, PTL DEF Spec, DbSpec

\* The tables are well formed in the host.
LEMMA HostDbFacts == Spec => []DbTypeOK /\ []DbInv
BY HostImplementsDb, DbTypeCorrect, DbInvariant, PTL

LEMMA GuestOfTyped ==
  ASSUME DbTypeOK, NEW p
  PROVE  GuestOf(p) \in SUBSET Guest
BY DEF GuestOf, guest_by_peer, DbTypeOK, GuestRow, Guest

\* Every action keeps the host's variables within their types.
THEOREM HostTypeCorrect == Spec => []HostTypeOK
<1>1. Init => HostTypeOK
  BY DEF Init, DbInit, DbTypeOK, HostTypeOK, Phases, CloseCodes, Idle, Task, Ops, Steps
<1>2. ASSUME HostTypeOK, DbTypeOK', [Next]_vars
      PROVE  HostTypeOK'
  <2> USE <1>2 DEF HostTypeOK
  <2>1. ASSUME NEW c \in Conns,
               accept(c) \/ ConnTask(c) \/ lookup_failed(c) \/ activation_stream(c)
               \/ activation_answered(c) \/ peer_gone(c)
        PROVE  HostTypeOK'
    <3>1. GuestOf(PeerOf(c)) \in SUBSET Guest
      BY GuestOfTyped
    <3> USE DEF Phases, CloseCodes, Move, Close
    <3>2. CASE accept(c)
      BY <3>2 DEF accept
    <3>3. CASE lookup_revoked(c)
      BY <3>3 DEF lookup_revoked
    <3>4. CASE lookup_guest(c)
      BY <3>1, <3>4 DEF lookup_guest
    <3>5. CASE lookup_unknown(c)
      BY <3>5 DEF lookup_unknown
    <3>6. CASE activation_ended(c)
      BY <3>6 DEF activation_ended
    <3>7. CASE activation_refused(c)
      BY <3>7 DEF activation_refused
    <3>8. CASE activation_failed(c)
      BY <3>8 DEF activation_failed
    <3>9. CASE recheck_guest(c)
      BY <3>1, <3>9 DEF recheck_guest
    <3>10. CASE recheck_refused(c)
      BY <3>10 DEF recheck_refused
    <3>11. CASE refusal_grace_over(c)
      BY <3>11 DEF refusal_grace_over
    <3>12. CASE register_connection(c)
      BY <3>12 DEF register_connection
    <3>13. CASE unregister_connection(c)
      BY <3>13 DEF unregister_connection
    <3>14. CASE lookup_failed(c)
      BY <3>14 DEF lookup_failed
    <3>15. CASE activation_stream(c) \/ activation_answered(c)
      BY <3>15 DEF activation_stream, activation_answered
    <3>16. CASE peer_gone(c)
      BY <3>16 DEF peer_gone
    <3> QED
      BY <2>1, <3>2, <3>3, <3>4, <3>5, <3>6, <3>7, <3>8, <3>9, <3>10, <3>11, <3>12, <3>13,
         <3>14, <3>15, <3>16 DEF ConnTask
  <2>2. ASSUME NEW c \in Conns, NEW r \in Requests, delete_guest_lookup(c, r)
        PROVE  HostTypeOK'
    <3>1. {[conn |-> c, request |-> r, number |-> g.number, outrun |-> FALSE] :
             g \in guest_by_peer(PeerOf(c))} \subseteq Leave
      <4>1. \A g \in guest_by_peer(PeerOf(c)) : g.number \in Nat
        BY DEF guest_by_peer, DbTypeOK, GuestRow
      <4>2. ASSUME NEW n \in Nat
            PROVE  [conn |-> c, request |-> r, number |-> n, outrun |-> FALSE] \in Leave
        BY SMT DEF Leave
      <4> QED
        BY <4>1, <4>2
    <3>2. PeerOf(c) \in Peers
      BY DEF PeerOf, Conns
    <3> QED
      BY <2>2, <3>1, <3>2 DEF delete_guest_lookup
  <2>3. ASSUME NEW l \in leaving, delete_guest_remove(l)
        PROVE  HostTypeOK'
    <3>1. ASSUME NEW m \in leaving
          PROVE  [m EXCEPT !.outrun = @ \/ m.number = l.number] \in Leave
      BY DEF Leave
    <3> QED
      BY <2>3, <3>1 DEF delete_guest_remove
  <2>4. ASSUME NEW n \in Numbers, revoke(n)
        PROVE  HostTypeOK'
    <3>1. [op |-> "revoke", step |-> "close", number |-> n] \in Task
      BY DEF Numbers, DbTypeOK, GuestRow, Task, Ops, Steps
    <3> QED
      BY <2>4, <3>1 DEF revoke, Actors
  <2>5. ASSUME NEW a \in Actors, shutdown(a)
        PROVE  HostTypeOK'
    <3>1. [op |-> "shutdown", step |-> "close", number |-> 0] \in Task
      BY DEF Task, Ops, Steps
    <3> QED
      BY <2>5, <3>1 DEF shutdown
  <2>6. ASSUME NEW a \in Actors, CloseTask(a)
        PROVE  HostTypeOK'
    <3>1. Closed(a) \in Task /\ [task[a] EXCEPT !.step = "wait"] \in Task
      BY DEF Closed, Task, Ops, Steps, Idle
    <3>2. CodeOf(a) \in CloseCodes
      BY DEF CodeOf, CloseCodes
    <3>3. Meant(a) \subseteq Conns
      BY DEF Meant
    <3>4. CASE close_connections(a)
      BY <3>1, <3>2, <3>3, <3>4 DEF close_connections
    <3>5. CASE closes_done(a) \/ closes_given_up(a)
      BY <3>1, <3>5 DEF closes_done, closes_given_up
    <3>6. CASE close_endpoint(a)
      BY <3>6 DEF close_endpoint, CloseCodes
    <3> QED
      BY <2>6, <3>4, <3>5, <3>6 DEF CloseTask
  <2>7. CASE exit \/ crash
    <3>1. Terminate
      BY <2>7 DEF exit, crash
    <3>2. Idle \in Task
      BY DEF Idle, Task, Ops, Steps
    <3>3. phase' \in [Conns -> Phases]
      BY <3>1 DEF Terminate, Phases
    <3>4. closed' \in [Conns -> CloseCodes]
      BY <3>1 DEF Terminate, CloseCodes
    <3> QED
      BY <3>1, <3>2, <3>3, <3>4 DEF Terminate
  <2>8. CASE start
    BY <2>8 DEF start
  <2>9. ASSUME NEW n \in Numbers, cli_connect_failed(n)
        PROVE  HostTypeOK'
    <3>1. n \in Nat
      BY DEF Numbers, DbTypeOK, GuestRow
    <3> QED
      BY <2>9, <3>1 DEF cli_connect_failed
  <2>10. ASSUME NEW n \in cli, cli_revoke(n)
         PROVE  HostTypeOK'
    BY <2>10 DEF cli_revoke
  <2>11. ASSUME UNCHANGED hostVars
         PROVE  HostTypeOK'
    BY <2>11 DEF hostVars
  <2> QED
    BY <2>1, <2>2, <2>3, <2>4, <2>5, <2>6, <2>7, <2>8, <2>9, <2>10, <2>11
       DEF Next, vars, post_activation, post_activation_again, invite, clock_ticks
<1> QED
  BY <1>1, <1>2, HostDbFacts, PTL DEF Spec

----------------------------------------------------------------------------
(***************************************************************************)
(* Served identities and revocation.  A step is of one of five kinds, told *)
(* apart by what it does to what RevokedSeen talks about.                  *)
(***************************************************************************)

\* Nothing happens to any guest a task resolved, and no close is undone.
Quiet ==
  /\ UNCHANGED <<bound, raced>>
  /\ \A n \in Nat : RevokePending(n) => RevokePending(n)'
  /\ \A c \in Conns : phase[c] = "serving" => phase'[c] = "serving"
  /\ \A c \in Conns : phase[c] = "bound" => phase'[c] \in {"bound", "serving"}
  /\ \A c \in Conns : closed[c] # "open" => closed'[c] # "open"

\* One task resolves its guest, which is not revoked.
Resolves ==
  \E c \in Conns :
    /\ bound' = [bound EXCEPT ![c] = GuestOf(PeerOf(c))]
    /\ phase' = [phase EXCEPT ![c] = "bound"]
    /\ phase[c] \notin {"bound", "serving"}
    /\ \A g \in guests : g.peer = PeerOf(c) => ~g.revoked
    /\ UNCHANGED <<dbVars, task, raced, closed>>

\* One task, or the whole process, drops the guest it had resolved.
Drops ==
  /\ \A c \in Conns :
       \/ bound'[c] = {}
       \/ bound'[c] = bound[c] /\ phase'[c] = phase[c] /\ closed'[c] = closed[c]
  /\ UNCHANGED <<dbVars, raced>>
  /\ \/ task' = task
     \/ \A c \in Conns : bound'[c] = {}

\* No guest becomes revoked.
NoRevocation == \A g \in guests' : g.revoked => g \in guests

LEMMA RedeemRevokesNobody ==
  ASSUME DbTypeOK, NEW s \in Secrets, NEW p \in Peers, redeem_invite(s, p)
  PROVE  NoRevocation
<1>1. CASE Redemption(s, p) = "Redeemed"
  BY <1>1, RedeemWrites DEF NoRevocation
<1>2. CASE Redemption(s, p) # "Redeemed"
  BY <1>2 DEF redeem_invite, dbVars, NoRevocation
<1> QED
  BY <1>1, <1>2

LEMMA StepKinds ==
  ASSUME HostTypeOK, [Next]_vars
  PROVE  \/ Quiet /\ NoRevocation
         \/ Resolves
         \/ Drops
         \/ \E n \in Numbers : revoke(n)
         \/ \E a \in Actors : close_connections(a)
         \/ \E n \in cli : cli_revoke(n)
<1> USE DEF HostTypeOK
<1>1. ASSUME NEW c \in Conns,
             \/ accept(c) \/ lookup_revoked(c) \/ lookup_unknown(c) \/ lookup_failed(c)
             \/ activation_ended(c) \/ activation_refused(c) \/ activation_failed(c)
             \/ activation_stream(c) \/ activation_answered(c) \/ recheck_refused(c)
             \/ refusal_grace_over(c) \/ register_connection(c) \/ peer_gone(c)
      PROVE  Quiet /\ NoRevocation
  <2>1. UNCHANGED <<dbVars, bound, task, raced>>
    BY <1>1 DEF accept, lookup_revoked, lookup_unknown, lookup_failed, activation_ended,
         activation_refused, activation_failed, activation_stream, activation_answered,
         recheck_refused, refusal_grace_over, register_connection, peer_gone
  <2>2. \/ phase' = phase
        \/ \E q \in Phases : phase' = [phase EXCEPT ![c] = q]
                              /\ (phase[c] = "bound" => q = "serving")
                              /\ phase[c] # "serving"
    BY <1>1 DEF accept, lookup_revoked, lookup_unknown, lookup_failed, activation_ended,
         activation_refused, activation_failed, activation_stream, activation_answered,
         recheck_refused, refusal_grace_over, register_connection, peer_gone, Move, Phases
  <2>3. closed' = closed \/ \E k \in CloseCodes \ {"open"} : Close(c, k)
    BY <1>1 DEF accept, lookup_revoked, lookup_unknown, lookup_failed, activation_ended,
         activation_refused, activation_failed, activation_stream, activation_answered,
         recheck_refused, refusal_grace_over, register_connection, peer_gone, CloseCodes
  <2>4. \A d \in Conns : closed[d] # "open" => closed'[d] # "open"
    BY <2>3 DEF Close
  <2>5. \A d \in Conns : phase[d] = "serving" => phase'[d] = "serving"
    BY <2>2
  <2>6. \A n \in Nat : RevokePending(n) => RevokePending(n)'
    BY <2>1 DEF RevokePending
  <2>7. NoRevocation
    BY <2>1 DEF NoRevocation, dbVars
  <2>8. UNCHANGED <<bound, raced>>
    BY <2>1
  <2>9. \A d \in Conns : phase[d] = "bound" => phase'[d] \in {"bound", "serving"}
    BY <2>2
  <2> QED
    BY <2>4, <2>5, <2>6, <2>7, <2>8, <2>9 DEF Quiet
<1>2. ASSUME NEW c \in Conns, lookup_guest(c) \/ recheck_guest(c)
      PROVE  Resolves
  BY <1>2 DEF lookup_guest, recheck_guest, Resolves, Move, RevokedPeer, guest_by_peer
<1>3. ASSUME NEW c \in Conns, unregister_connection(c)
      PROVE  Drops
  <2>1. /\ bound' = [bound EXCEPT ![c] = {}]
        /\ phase' = [phase EXCEPT ![c] = "gone"]
        /\ closed' = closed
        /\ task' = task
        /\ UNCHANGED <<dbVars, raced>>
    BY <1>3 DEF unregister_connection, Move
  <2>2. \A d \in Conns :
          \/ bound'[d] = {}
          \/ bound'[d] = bound[d] /\ phase'[d] = phase[d] /\ closed'[d] = closed[d]
    BY <2>1
  <2> QED
    BY <2>1, <2>2 DEF Drops
<1>4. ASSUME exit \/ crash
      PROVE  Drops
  <2>1. Terminate
    BY <1>4 DEF exit, crash
  <2>2. \A d \in Conns : bound'[d] = {}
    BY <2>1 DEF Terminate
  <2> QED
    BY <2>1, <2>2 DEF Terminate, Drops
<1>5. ASSUME NEW c \in Conns, NEW s \in Secrets,
             post_activation(c, s) \/ post_activation_again(c, s)
      PROVE  Quiet /\ NoRevocation
  <2>1. redeem_invite(s, PeerOf(c)) /\ UNCHANGED hostVars
    BY <1>5 DEF post_activation, post_activation_again
  <2>2. PeerOf(c) \in Peers
    BY DEF PeerOf, Conns
  <2> QED
    BY <2>1, <2>2, RedeemRevokesNobody DEF Quiet, hostVars, RevokePending
<1>6. ASSUME NEW l \in leaving, delete_guest_remove(l)
      PROVE  Quiet /\ NoRevocation
  BY <1>6 DEF delete_guest_remove, remove_guest, Quiet, NoRevocation, RevokePending
<1>7. ASSUME NEW s \in Secrets, NEW u \in Users, invite(s, u)
      PROVE  Quiet /\ NoRevocation
  BY <1>7 DEF invite, create_invite, Quiet, NoRevocation, RevokePending, hostVars
<1>8. CASE clock_ticks
  BY <1>8 DEF clock_ticks, Tick, Quiet, NoRevocation, RevokePending, hostVars
<1>9. ASSUME NEW c \in Conns, NEW r \in Requests, delete_guest_lookup(c, r)
      PROVE  Quiet /\ NoRevocation
  BY <1>9 DEF delete_guest_lookup, Quiet, NoRevocation, RevokePending, dbVars
<1>10. CASE start \/ \E n \in Numbers : cli_connect_failed(n)
  BY <1>10 DEF start, cli_connect_failed, Quiet, NoRevocation, RevokePending, dbVars
<1>11. CASE UNCHANGED vars
  BY <1>11 DEF vars, hostVars, dbVars, Quiet, NoRevocation, RevokePending
<1>12. ASSUME NEW a \in Actors, shutdown(a)
       PROVE  Quiet /\ NoRevocation
  BY <1>12 DEF shutdown, Idle, Actors, Quiet, NoRevocation, RevokePending, dbVars
<1>13. ASSUME NEW a \in Actors, closes_done(a) \/ closes_given_up(a)
       PROVE  Quiet /\ NoRevocation
  BY <1>13 DEF closes_done, closes_given_up, Actors, Quiet, NoRevocation, RevokePending, dbVars
<1>14. ASSUME NEW a \in Actors, close_endpoint(a)
       PROVE  Quiet /\ NoRevocation
  BY <1>14 DEF close_endpoint, Quiet, NoRevocation, RevokePending, dbVars
<1> QED
  BY <1>1, <1>2, <1>3, <1>4, <1>5, <1>6, <1>7, <1>8, <1>9, <1>10, <1>11, <1>12, <1>13, <1>14
     DEF Next, ConnTask, CloseTask

\* The invariant behind RevokeMissesOnlyRaces survives each kind of step.
LEMMA RevokedSeenPreserved ==
  ASSUME HostTypeOK, DbInv, BoundWhileServed, RevokedSeen, [Next]_vars
  PROVE  BoundWhileServed' /\ RevokedSeen'
<1> USE DEF HostTypeOK, BoundWhileServed, RevokedSeen
<1> SUFFICES ASSUME NEW c \in Conns, NEW b \in bound'[c]
             PROVE  /\ phase'[c] \in {"bound", "serving"}
                    /\ \A g \in guests' :
                         (g.peer = PeerOf(c) /\ g.revoked /\ b.number = g.number)
                         => \/ c \in raced'
                            \/ RevokePending(g.number)'
                            \/ phase'[c] = "serving" /\ closed'[c] # "open"
  OBVIOUS
<1>0. \A g \in guests : g.number \in Nat
  BY DEF DbTypeOK, GuestRow
<1>1. CASE Quiet /\ NoRevocation
  BY <1>0, <1>1 DEF Quiet, NoRevocation
<1>2. CASE Resolves
  <2>1. PICK d \in Conns :
          /\ bound' = [bound EXCEPT ![d] = GuestOf(PeerOf(d))]
          /\ phase' = [phase EXCEPT ![d] = "bound"]
          /\ \A g \in guests : g.peer = PeerOf(d) => ~g.revoked
          /\ guests' = guests /\ task' = task /\ raced' = raced /\ closed' = closed
    BY <1>2 DEF Resolves, dbVars
  <2>2. CASE c = d
    BY <2>1, <2>2
  <2>3. CASE c # d
    <3>1. b \in bound[c] /\ phase'[c] = phase[c]
      BY <2>1, <2>3
    <3> QED
      BY <2>1, <3>1 DEF RevokePending
  <2> QED
    BY <2>2, <2>3
<1>3. CASE Drops
  <2>1. b \in bound[c] /\ phase'[c] = phase[c] /\ closed'[c] = closed[c]
    BY <1>3 DEF Drops
  <2>2. guests' = guests /\ raced' = raced /\ task' = task
    BY <1>3 DEF Drops, dbVars
  <2> QED
    BY <2>1, <2>2 DEF RevokePending
<1>4. ASSUME NEW n \in Numbers, revoke(n)
      PROVE  /\ phase'[c] \in {"bound", "serving"}
             /\ \A g \in guests' :
                  (g.peer = PeerOf(c) /\ g.revoked /\ b.number = g.number)
                  => \/ c \in raced'
                     \/ RevokePending(g.number)'
                     \/ phase'[c] = "serving" /\ closed'[c] # "open"
  <2>1. \A m \in Nat : ~RevokePending(m)
    BY <1>4 DEF revoke, Idle, RevokePending
  <2>2. UNCHANGED <<phase, closed, bound, raced>> /\ RevokePending(n)'
    BY <1>4 DEF revoke, Actors, RevokePending
  <2>3. \A g \in guests' : g.number # n => g \in guests
    BY <1>4 DEF revoke, revoke_guest, DbTypeOK, GuestRow
  <2> QED
    BY <1>0, <2>1, <2>2, <2>3
<1>5. ASSUME NEW a \in Actors, close_connections(a)
      PROVE  /\ phase'[c] \in {"bound", "serving"}
             /\ \A g \in guests' :
                  (g.peer = PeerOf(c) /\ g.revoked /\ b.number = g.number)
                  => \/ c \in raced'
                     \/ RevokePending(g.number)'
                     \/ phase'[c] = "serving" /\ closed'[c] # "open"
  <2>1. /\ guests' = guests /\ phase' = phase /\ bound' = bound
        /\ raced \subseteq raced'
        /\ closed[c] # "open" => closed'[c] # "open"
    BY <1>5 DEF close_connections, dbVars
  <2>2. ASSUME NEW g \in guests, RevokePending(g.number), b.number = g.number
        PROVE  \/ c \in raced'
               \/ RevokePending(g.number)'
               \/ phase'[c] = "serving" /\ closed'[c] # "open"
    <3>1. CASE a = "ipc"
      <4>1. c \in Meant(a)
        BY <2>1, <2>2, <3>1 DEF Meant, RevokePending
      <4>2. CASE phase[c] = "bound"
        BY <1>5, <2>2, <3>1, <4>1, <4>2 DEF close_connections, RevokePending
      <4>3. CASE phase[c] = "serving"
        <5>1. c \in Which(a) /\ CodeOf(a) = "Revoked"
          BY <2>2, <3>1, <4>1, <4>3 DEF Which, CodeOf, RevokePending
        <5> QED
          BY <1>5, <2>1, <4>3, <5>1 DEF close_connections
      <4> QED
        BY <2>1, <4>2, <4>3
    <3>2. CASE a # "ipc"
      BY <1>5, <2>2, <3>2 DEF close_connections, RevokePending, Actors
    <3> QED
      BY <3>1, <3>2
  <2> QED
    BY <2>1, <2>2
<1>6. ASSUME NEW n \in cli, cli_revoke(n)
      PROVE  /\ phase'[c] \in {"bound", "serving"}
             /\ \A g \in guests' :
                  (g.peer = PeerOf(c) /\ g.revoked /\ b.number = g.number)
                  => \/ c \in raced'
                     \/ RevokePending(g.number)'
                     \/ phase'[c] = "serving" /\ closed'[c] # "open"
  <2>1. /\ UNCHANGED <<phase, closed, bound, task>>
        /\ raced' = raced \cup {d \in Conns : \E x \in bound[d] : x.number = n}
    BY <1>6 DEF cli_revoke
  <2>2. \A g \in guests' : g.number # n => g \in guests
    BY <1>6 DEF cli_revoke, revoke_guest, dbVars, DbTypeOK, GuestRow, Numbers
  <2> QED
    BY <2>1, <2>2 DEF RevokePending
<1> QED
  BY <1>1, <1>2, <1>3, <1>4, <1>5, <1>6, StepKinds

\* Invites are never deleted, their user ID never changes, and what was granted
\* stays granted.
LEMMA GrantsPersist ==
  ASSUME DbTypeOK, [DbNext]_dbVars
  PROVE  /\ grants \subseteq grants'
         /\ \A i \in invites : \E j \in invites' : j.secret = i.secret /\ j.user = i.user
<1>1. ASSUME NEW s \in Secrets, NEW p \in Peers, redeem_invite(s, p)
      PROVE  /\ grants \subseteq grants'
             /\ \A i \in invites : \E j \in invites' : j.secret = i.secret /\ j.user = i.user
  <2>1. CASE Redemption(s, p) = "Redeemed"
    <3>1. PICK i \in invites : /\ invites' = (invites \ {i}) \cup {[i EXCEPT !.consumed = TRUE]}
                               /\ grants' = grants \cup {<<s, p>>}
      BY <1>1, <2>1, RedeemWrites
    <3>2. /\ [i EXCEPT !.consumed = TRUE].secret = i.secret
          /\ [i EXCEPT !.consumed = TRUE].user = i.user
      BY DEF DbTypeOK, InviteRow
    <3> QED
      BY <3>1, <3>2
  <2>2. CASE Redemption(s, p) # "Redeemed"
    BY <1>1, <2>2 DEF redeem_invite, dbVars
  <2> QED
    BY <2>1, <2>2
<1> QED
  BY <1>1 DEF DbNext, create_invite, remove_guest, revoke_guest, Tick, dbVars

\* The guest a connection is served as was read from the tables in one step, or
\* is the one it was served as before.
LEMMA ServedIsGrantedPreserved ==
  ASSUME HostTypeOK, DbInv, ServedIsGranted, [Next]_vars
  PROVE  ServedIsGranted'
<1> USE DEF ServedIsGranted
<1> SUFFICES ASSUME NEW c \in Conns, NEW b \in bound'[c]
             PROVE  \E i \in invites' : <<i.secret, PeerOf(c)>> \in grants' /\ i.user = b.user
  OBVIOUS
<1>1. [DbNext]_dbVars /\ DbTypeOK
  BY StepsUseDb DEF HostTypeOK
<1>2. CASE b \in bound[c]
  BY <1>1, <1>2, GrantsPersist
<1>3. CASE b \notin bound[c]
  <2>1. Resolves
    BY <1>3, StepKinds
       DEF HostTypeOK, Quiet, Drops, revoke, close_connections, cli_revoke
  <2>2. b \in GuestOf(PeerOf(c)) /\ UNCHANGED dbVars
    BY <1>3, <2>1 DEF Resolves, HostTypeOK
  <2>3. PICK g \in guests : g.peer = PeerOf(c) /\ b.user = g.user
    BY <2>2 DEF GuestOf, guest_by_peer
  <2>4. \E i \in invites : <<i.secret, g.peer>> \in grants /\ i.user = g.user
    BY <2>3 DEF DbInv, IdentityFromInvite
  <2> QED
    BY <2>2, <2>3, <2>4 DEF dbVars
<1> QED
  BY <1>2, <1>3

\* The inductive invariant of the host: who is served, and what a revocation
\* sees of it.
THEOREM HostInvariant == Spec => []HostInv
<1>1. Init => HostInv
  BY DEF Init, HostInv, BoundWhileServed, RevokedSeen, ServedIsGranted
<1>2. HostTypeOK /\ DbInv /\ HostInv /\ [Next]_vars => HostInv'
  BY RevokedSeenPreserved, ServedIsGrantedPreserved DEF HostInv
<1> QED
  BY <1>1, <1>2, HostTypeCorrect, HostDbFacts, PTL DEF Spec

\* Whoever is served, is served under the user ID of an invite its own key
\* redeemed (serve_guest, after either lookup of handle_incoming).
THEOREM ServedAsInvited == Spec => []ServedIsGranted
BY HostInvariant, PTL DEF HostInv

\* A revocation through the daemon misses a connection only when it looked its
\* guest up before and registered after the pass over the registry, when the
\* daemon was bypassed, or when the connection's guest has another number now.
THEOREM RevocationMissesOnlyRaces == Spec => []RevokeMissesOnlyRaces
<1>1. HostTypeOK /\ HostInv => RevokeMissesOnlyRaces
  BY DEF HostInv, HostTypeOK, RevokedSeen, RevokePending, RevokeMissesOnlyRaces
<1> QED
  BY <1>1, HostInvariant, HostTypeCorrect, PTL

----------------------------------------------------------------------------
(***************************************************************************)
(* Requests to leave.                                                      *)
(***************************************************************************)

\* The DELETE handlers in flight change by their own two halves only, and end
\* with the process.
LEMMA OthersLeaveLeaving ==
  ASSUME [Next]_vars,
         ~\E c \in Conns, r \in Requests : delete_guest_lookup(c, r),
         ~\E l \in leaving : delete_guest_remove(l)
  PROVE  asked' = asked /\ (leaving' = leaving \/ leaving' = {})
BY DEF Next, ConnTask, CloseTask, vars, hostVars, accept, lookup_failed,
     activation_stream, activation_answered, peer_gone, lookup_revoked, lookup_guest,
     lookup_unknown, activation_ended, activation_refused, activation_failed,
     recheck_guest, recheck_refused, refusal_grace_over, register_connection,
     unregister_connection, post_activation, post_activation_again, invite, revoke,
     shutdown, close_connections, closes_done, closes_given_up, close_endpoint,
     exit, crash, Terminate, start, cli_connect_failed, cli_revoke, clock_ticks

\* Every other method keeps each row's number and peer.
LEMMA NumbersStay ==
  ASSUME DbTypeOK, KeepsRows, NEW g \in guests
  PROVE  \E h \in guests' : h.number = g.number /\ h.peer = g.peer
<1>1. ASSUME NEW s \in Secrets, NEW p \in Peers, redeem_invite(s, p)
      PROVE  g \in guests'
  BY <1>1, RedeemWrites DEF redeem_invite, dbVars
<1>2. ASSUME NEW n \in Numbers, revoke_guest(n)
      PROVE  \E h \in guests' : h.number = g.number /\ h.peer = g.peer
  <2>1. /\ [g EXCEPT !.revoked = TRUE].peer = g.peer
        /\ [g EXCEPT !.revoked = TRUE].number = g.number
    BY DEF DbTypeOK, GuestRow
  <2>2. (IF g.number = n THEN [g EXCEPT !.revoked = TRUE] ELSE g) \in guests'
    BY <1>2 DEF revoke_guest
  <2> QED
    BY <2>1, <2>2
<1> QED
  BY <1>1, <1>2 DEF KeepsRows, create_invite, Tick, dbVars

LEMMA LeavesNamedPreserved ==
  ASSUME HostTypeOK, DbInv, LeavesNamed, [Next]_vars
  PROVE  LeavesNamed'
<1> DEFINE Named(l, G) == l.outrun \/ \E g \in G : g.peer = PeerOf(l.conn) /\ g.number = l.number
<1>1. /\ \A l, m \in leaving : l.conn = m.conn /\ l.request = m.request => l = m
      /\ \A l \in leaving : Named(l, guests)
      /\ leaving \subseteq Leave /\ DbTypeOK
  BY DEF HostTypeOK, LeavesNamed, guest_by_peer
<1>2. ASSUME \A l, m \in leaving' : l.conn = m.conn /\ l.request = m.request => l = m,
             \A l \in leaving' : Named(l, guests')
      PROVE  LeavesNamed'
  BY <1>2 DEF LeavesNamed, guest_by_peer
<1> HIDE DEF Named
<1>3. ASSUME NEW c \in Conns, NEW r \in Requests, delete_guest_lookup(c, r)
      PROVE  LeavesNamed'
  <2>1. /\ leaving' = leaving \cup {[conn |-> c, request |-> r, number |-> g.number,
                                    outrun |-> FALSE] : g \in guest_by_peer(PeerOf(c))}
        /\ guests' = guests
        /\ \A l \in leaving : <<l.conn, l.request>> # <<c, r>>
    BY <1>3 DEF delete_guest_lookup, dbVars
  <2>2. \A l \in leaving' : Named(l, guests')
    BY <1>1, <2>1 DEF Named, guest_by_peer
  <2>3. \A g, h \in guest_by_peer(PeerOf(c)) : g = h
    BY DEF guest_by_peer, DbInv, KeysUnique
  <2>4. \A l, m \in leaving' : l.conn = m.conn /\ l.request = m.request => l = m
    <3> DEFINE new == {[conn |-> c, request |-> r, number |-> g.number, outrun |-> FALSE] :
                       g \in guest_by_peer(PeerOf(c))}
    <3>1. \A l \in new : l.conn = c /\ l.request = r
      OBVIOUS
    <3>2. \A l, m \in new : l = m
      BY <2>3
    <3>3. leaving' = leaving \cup new
      BY <2>1
    <3>4. \A l \in leaving : ~(l.conn = c /\ l.request = r)
      BY <2>1
    <3> HIDE DEF new
    <3> QED
      BY <1>1, <3>1, <3>2, <3>3, <3>4
  <2> QED
    BY <1>2, <2>2, <2>4
<1>4. ASSUME NEW l \in leaving, delete_guest_remove(l)
      PROVE  LeavesNamed'
  <2> DEFINE After(m) == [m EXCEPT !.outrun = @ \/ m.number = l.number]
  <2>1. /\ leaving' = {After(m) : m \in leaving \ {l}}
        /\ guests' = {g \in guests : g.number # l.number}
    BY <1>4 DEF delete_guest_remove, remove_guest
  <2>2. ASSUME NEW m \in leaving
        PROVE  /\ After(m).conn = m.conn /\ After(m).request = m.request
               /\ After(m).number = m.number
               /\ After(m).outrun = (m.outrun \/ m.number = l.number)
    BY <1>1 DEF Leave
  <2> HIDE DEF After
  <2>3. \A k, m \in leaving' : k.conn = m.conn /\ k.request = m.request => k = m
    BY <1>1, <2>1, <2>2
  <2>4. ASSUME NEW m \in leaving
        PROVE  Named(After(m), guests')
    <3>1. CASE m.outrun \/ m.number = l.number
      BY <2>2, <3>1 DEF Named
    <3>2. CASE ~m.outrun /\ m.number # l.number
      <4>1. PICK g \in guests : g.peer = PeerOf(m.conn) /\ g.number = m.number
        BY <1>1, <3>2 DEF Named
      <4> QED
        BY <2>1, <2>2, <3>2, <4>1 DEF Named
    <3> QED
      BY <3>1, <3>2
  <2> QED
    BY <1>2, <2>1, <2>3, <2>4
<1>5. CASE /\ ~\E c \in Conns, r \in Requests : delete_guest_lookup(c, r)
           /\ ~\E l \in leaving : delete_guest_remove(l)
  <2>1. leaving' \subseteq leaving
    BY <1>5, OthersLeaveLeaving
  <2>2. KeepsRows
    BY <1>5, StepsKeepRows
  <2>3. ASSUME NEW l \in leaving
        PROVE  Named(l, guests')
    BY <1>1, <2>2, NumbersStay DEF Named
  <2> QED
    BY <1>1, <1>2, <2>1, <2>3
<1> QED
  BY <1>3, <1>4, <1>5

\* A DELETE takes its own peer's row, whatever leaves, revocations and newcomers
\* come between its two calls, unless another request of that peer outran it.
THEOREM LeavesTakeNobodyElse == Spec => LeavesTakeTheirOwn
<1> DEFINE Own ==
      \A g \in guests : guest_by_peer(g.peer)' = {} =>
        \E l \in leaving \ leaving' :
          l.number = g.number /\ (PeerOf(l.conn) = g.peer \/ l.outrun)
<1>1. Init => LeavesNamed
  BY DEF Init, LeavesNamed
<1>2. ASSUME HostTypeOK, DbInv, LeavesNamed, [Next]_vars
      PROVE  Own
  <2> SUFFICES ASSUME NEW g \in guests, ~\E h \in guests' : h.peer = g.peer
               PROVE  \E l \in leaving \ leaving' :
                        l.number = g.number /\ (PeerOf(l.conn) = g.peer \/ l.outrun)
    BY DEF guest_by_peer
  <2>1. ~KeepsRows
    BY <1>2, NumbersStay DEF HostTypeOK
  <2>2. PICK l \in leaving : delete_guest_remove(l)
    BY <1>2, <2>1, StepsKeepRows
  <2>3. g.number = l.number
    BY <2>2 DEF delete_guest_remove, remove_guest
  <2>4. l \notin leaving'
    <3>1. ASSUME NEW m \in leaving \ {l}
          PROVE  [m EXCEPT !.outrun = @ \/ m.number = l.number] # l
      BY <1>2 DEF HostTypeOK, Leave, LeavesNamed
    <3> QED
      BY <2>2, <3>1 DEF delete_guest_remove
  <2>5. l.outrun \/ PeerOf(l.conn) = g.peer
    BY <1>2, <2>3 DEF LeavesNamed, guest_by_peer, DbInv, KeysUnique
  <2> QED
    BY <2>3, <2>4, <2>5
<1>3. HostTypeOK /\ DbInv /\ LeavesNamed /\ [Next]_vars => LeavesNamed' /\ [Own]_vars
  BY <1>2, LeavesNamedPreserved
<1> QED
  BY <1>1, <1>3, HostTypeCorrect, HostDbFacts, PTL DEF Spec, LeavesTakeTheirOwn

----------------------------------------------------------------------------
(***************************************************************************)
(* Barred keys.  While no guest has asked to leave, no DELETE is in flight *)
(* and every key that was revoked still has its revoked row; that is what  *)
(* makes BarredUnlessLeft inductive, as peers are unique in the table.     *)
(***************************************************************************)
RowsOfBarred == \A p \in banned : \E g \in guests : g.peer = p /\ g.revoked
BarredKept == asked = {} => leaving = {} /\ RowsOfBarred

\* A method that removes no row keeps every revoked row, and revoke_guest
\* leaves one for each key it bars.
LEMMA RevokedRowsStay ==
  ASSUME DbTypeOK, KeepsRows, RowsOfBarred
  PROVE  RowsOfBarred'
<1> USE DEF RowsOfBarred
<1>1. ASSUME NEW s \in Secrets, NEW p \in Peers, redeem_invite(s, p)
      PROVE  RowsOfBarred'
  <2>1. banned' = banned /\ guests \subseteq guests'
    BY <1>1, RedeemWrites DEF redeem_invite, dbVars
  <2> QED
    BY <2>1
<1>2. ASSUME NEW n \in Numbers, revoke_guest(n)
      PROVE  RowsOfBarred'
  <2> SUFFICES ASSUME NEW p \in banned'
               PROVE  \E g \in guests' : g.peer = p /\ g.revoked
    OBVIOUS
  <2>1. PICK g \in guests : g.peer = p /\ (g.revoked \/ g.number = n)
    BY <1>2 DEF revoke_guest
  <2>2. /\ [g EXCEPT !.revoked = TRUE].peer = g.peer
        /\ [g EXCEPT !.revoked = TRUE].revoked
    BY DEF DbTypeOK, GuestRow
  <2>3. (IF g.number = n THEN [g EXCEPT !.revoked = TRUE] ELSE g) \in guests'
    BY <1>2 DEF revoke_guest
  <2> QED
    BY <2>1, <2>2, <2>3
<1> QED
  BY <1>1, <1>2 DEF KeepsRows, create_invite, Tick, dbVars

LEMMA BarredKeptPreserved ==
  ASSUME HostTypeOK, BarredKept, [Next]_vars
  PROVE  BarredKept'
<1>1. CASE \E c \in Conns, r \in Requests : delete_guest_lookup(c, r)
  BY <1>1 DEF delete_guest_lookup, BarredKept
<1>2. CASE \E l \in leaving : delete_guest_remove(l)
  BY <1>2 DEF delete_guest_remove, BarredKept
<1>3. CASE /\ ~\E c \in Conns, r \in Requests : delete_guest_lookup(c, r)
           /\ ~\E l \in leaving : delete_guest_remove(l)
  <2>1. asked' = asked /\ (leaving' = leaving \/ leaving' = {})
    BY <1>3, OthersLeaveLeaving
  <2>2. KeepsRows
    BY <1>3, StepsKeepRows
  <2> QED
    BY <2>1, <2>2, RevokedRowsStay DEF BarredKept, HostTypeOK
<1> QED
  BY <1>1, <1>2, <1>3

\* StateDb::revoke_guest: a revoked key is never bound again, whatever it
\* redeems and however often the daemon restarts, as long as no guest of the
\* share sends a DELETE.
THEOREM BarredStayBarred == Spec => []BarredUnlessLeft
<1>1. Init => BarredKept
  BY DEF Init, DbInit, BarredKept, RowsOfBarred
<1>2. HostTypeOK /\ BarredKept /\ [Next]_vars => BarredKept'
  BY BarredKeptPreserved
<1>3. DbInv /\ BarredKept => BarredUnlessLeft
  BY DEF DbInv, KeysUnique, BarredKept, RowsOfBarred, BarredUnlessLeft
<1> QED
  BY <1>1, <1>2, <1>3, HostTypeCorrect, HostDbFacts, PTL DEF Spec
=============================================================================
