------------------------------ MODULE IrohHost ------------------------------
(***************************************************************************)
(* The iroh host node of a share: waserver's accept loop and the task it   *)
(* spawns per connection (waserver/src/iroh_transport.rs), the registry of *)
(* live connections and the operations that close them (serving.rs), the   *)
(* CTRL requests that change membership (guest_api.rs) and the state       *)
(* database they share (StateDb).                                          *)
(*                                                                         *)
(* Connection tasks, in-flight DELETE handlers, the IPC task, the signal   *)
(* branch of the accept loop and a `waserver revoke` in another process    *)
(* interleave at their lock acquisitions and awaits.  Data-plane streams   *)
(* carry the identity the connection was given and change no state of the  *)
(* host: a connection that is "serving" and open may open them.            *)
(***************************************************************************)
EXTENDS StateDb

CONSTANTS ConnsPerPeer,  \* how many connections each peer may dial in all
          Requests       \* DELETE requests one connection may have in flight

ASSUME ConnsAssumption == ConnsPerPeer \in Nat

VARIABLES daemon,   \* "down", "up", or "closed": the endpoint is shut
          phase,    \* where each connection's handle_incoming task is
          closed,   \* how each QUIC connection ended, "open" until then
          bound,    \* the GuestNode the task resolved: {} or {[number, user]}
          leaving,  \* DELETE handlers between guest_by_peer and remove_guest
          task,     \* what the IPC task and the signal branch are doing
          cli,      \* guest numbers an offline `waserver revoke` will write
          raced,    \* history: connections a revocation could not see
          asked     \* history: peers that sent a DELETE

hostVars == <<daemon, phase, closed, bound, leaving, task, cli, raced, asked>>
vars == <<dbVars, hostVars>>

\* A connection is the k-th its peer dials; QUIC authenticates the peer's key.
Conns == Peers \X (1 .. ConnsPerPeer)
PeerOf(c) == c[1]

Phases == {"idle", "accepted", "unbound", "activating", "answered", "refused",
           "bound", "serving", "gone"}
CloseCodes == {"open", "Closing", "Unknown", "Revoked", "lost"}
Actors == {"ipc", "signal"}
Ops == {"none", "revoke", "shutdown"}
Steps == {"none", "close", "wait", "endpoint"}
Idle == [op |-> "none", step |-> "none", number |-> 0]
Task == [op : Ops, step : Steps, number : Nat]
Guest == [number : Nat, user : Users]
\* outrun is history: another request removed the row of that number since.
Leave == [conn : Conns, request : Requests, number : Nat, outrun : BOOLEAN]

HostTypeOK ==
  /\ DbTypeOK
  /\ daemon \in {"down", "up", "closed"}
  /\ phase \in [Conns -> Phases]
  /\ closed \in [Conns -> CloseCodes]
  /\ bound \in [Conns -> SUBSET Guest]
  /\ leaving \subseteq Leave
  /\ task \in [Actors -> Task]
  /\ cli \subseteq Nat
  /\ raced \subseteq Conns
  /\ asked \subseteq Peers

Init ==
  /\ DbInit
  /\ daemon = "up"
  /\ phase = [c \in Conns |-> "idle"]
  /\ closed = [c \in Conns |-> "open"]
  /\ bound = [c \in Conns |-> {}]
  /\ leaving = {}
  /\ task = [a \in Actors |-> Idle]
  /\ cli = {}
  /\ raced = {}
  /\ asked = {}

Alive == daemon # "down"

\* The connection's task moves on; its connection is closed with code unless
\* it already was (quinn ignores a second close).
Move(c, from, to) ==
  /\ phase[c] = from
  /\ phase' = [phase EXCEPT ![c] = to]
Close(c, code) ==
  closed' = [closed EXCEPT ![c] = IF @ = "open" THEN code ELSE @]

GuestOf_any_peer(p) == {[number |-> g.number, user |-> g.user] : g \in guests}

\* The fields of a guests row that the serving task keeps.
GuestOf(p) == {[number |-> g.number, user |-> g.user] : g \in guest_by_peer(p)}
RevokedPeer(p) == \E g \in guest_by_peer(p) : g.revoked

----------------------------------------------------------------------------
(***************************************************************************)
(* A connection's task.                                                    *)
(***************************************************************************)

\* The accept loop takes a connection.  It does not while its select! branch
\* runs the shutdown a signal asked for.
accept(c) ==
  /\ daemon = "up"
  /\ task["signal"] = Idle
  /\ Move(c, "idle", "accepted")
  /\ UNCHANGED <<dbVars, daemon, closed, bound, leaving, task, cli, raced, asked>>

\* handle_incoming: the lookup that decides how the connection is treated.
lookup_revoked(c) ==
  /\ RevokedPeer(PeerOf(c))
  /\ Move(c, "accepted", "gone")
  /\ Close(c, "Revoked")
  /\ UNCHANGED <<dbVars, daemon, bound, leaving, task, cli, raced, asked>>

lookup_guest(c) ==
  /\ GuestOf(PeerOf(c)) # {}
  /\ ~RevokedPeer(PeerOf(c))
  /\ Move(c, "accepted", "bound")
  /\ bound' = [bound EXCEPT ![c] = GuestOf(PeerOf(c))]
  /\ UNCHANGED <<dbVars, daemon, closed, leaving, task, cli, raced, asked>>

lookup_unknown(c) ==
  /\ GuestOf(PeerOf(c)) = {}
  /\ Move(c, "accepted", "unbound")
  /\ UNCHANGED <<dbVars, daemon, closed, bound, leaving, task, cli, raced, asked>>

\* Both lookups: the database could not be read.
lookup_failed(c) ==
  /\ Move(c, "accepted", "gone") \/ Move(c, "answered", "gone")
  /\ Close(c, "Closing")
  /\ UNCHANGED <<dbVars, daemon, bound, leaving, task, cli, raced, asked>>

\* activate: waiting for the peer's first stream, no longer than
\* ACTIVATION_WINDOW.  The window running out and a data-plane stream
\* (StreamOutcome::Refused) both close the connection with Unknown; a stream is
\* taken here with its type byte, and any that is not data plane is "activating".
activation_ended(c) ==
  /\ closed[c] # "open"
  /\ Move(c, "unbound", "gone")
  /\ UNCHANGED <<dbVars, daemon, closed, bound, leaving, task, cli, raced, asked>>

activation_refused(c) ==
  /\ Move(c, "unbound", "gone")
  /\ Close(c, "Unknown")
  /\ UNCHANGED <<dbVars, daemon, bound, leaving, task, cli, raced, asked>>

activation_stream(c) ==
  /\ closed[c] = "open"
  /\ Move(c, "unbound", "activating")
  /\ UNCHANGED <<dbVars, daemon, closed, bound, leaving, task, cli, raced, asked>>

\* POST /v1/activation on the CTRL stream.  hyper keeps the stream open for
\* further requests; anything but an activation is answered 403.
post_activation(c, s) ==
  /\ phase[c] = "activating"
  /\ closed[c] = "open"
  /\ redeem_invite(s, PeerOf(c))
  /\ UNCHANGED hostVars

\* The peer finishes the stream; nothing makes it.
activation_answered(c) ==
  /\ closed[c] = "open"
  /\ Move(c, "activating", "answered")
  /\ UNCHANGED <<dbVars, daemon, closed, bound, leaving, task, cli, raced, asked>>

\* The stream fails with the connection.
activation_failed(c) ==
  /\ closed[c] # "open"
  /\ Move(c, "activating", "answered")
  /\ UNCHANGED <<dbVars, daemon, closed, bound, leaving, task, cli, raced, asked>>

recheck_guest_revoked_too(c) ==
  /\ GuestOf(PeerOf(c)) # {}
  /\ Move(c, "answered", "bound")
  /\ bound' = [bound EXCEPT ![c] = GuestOf(PeerOf(c))]
  /\ UNCHANGED <<dbVars, daemon, closed, leaving, task, cli, raced, asked>>

\* "Whatever the stream carried, the state database says whether this key is
\* a guest now."
recheck_guest(c) ==
  /\ GuestOf(PeerOf(c)) # {}
  /\ ~RevokedPeer(PeerOf(c))
  /\ Move(c, "answered", "bound")
  /\ bound' = [bound EXCEPT ![c] = GuestOf(PeerOf(c))]
  /\ UNCHANGED <<dbVars, daemon, closed, leaving, task, cli, raced, asked>>

recheck_refused(c) ==
  /\ GuestOf(PeerOf(c)) = {} \/ RevokedPeer(PeerOf(c))
  /\ Move(c, "answered", "refused")
  /\ UNCHANGED <<dbVars, daemon, closed, bound, leaving, task, cli, raced, asked>>

\* REFUSAL_GRACE has passed, or the peer closed first.
refusal_grace_over(c) ==
  /\ Move(c, "refused", "gone")
  /\ Close(c, "Unknown")
  /\ UNCHANGED <<dbVars, daemon, bound, leaving, task, cli, raced, asked>>

\* serve_guest: touch_guest, then register_connection.  The registry holds
\* exactly the connections in phase "serving"; next_connection_id gives each
\* its own entry.
register_connection(c) ==
  /\ Move(c, "bound", "serving")
  /\ UNCHANGED <<dbVars, daemon, closed, bound, leaving, task, cli, raced, asked>>

\* accept_bi fails once the connection is closed.
unregister_connection(c) ==
  /\ closed[c] # "open"
  /\ Move(c, "serving", "gone")
  /\ bound' = [bound EXCEPT ![c] = {}]
  /\ UNCHANGED <<dbVars, daemon, closed, leaving, task, cli, raced, asked>>

\* The peer closes the connection, or the network loses it.
peer_gone(c) ==
  /\ phase[c] \notin {"idle", "gone"}
  /\ closed[c] = "open"
  /\ Close(c, "lost")
  /\ UNCHANGED <<dbVars, daemon, phase, bound, leaving, task, cli, raced, asked>>

----------------------------------------------------------------------------
(***************************************************************************)
(* Guest API requests of a served connection that change membership.       *)
(***************************************************************************)

\* A bound peer may post an activation again.
post_activation_again(c, s) ==
  /\ phase[c] = "serving"
  /\ closed[c] = "open"
  /\ redeem_invite(s, PeerOf(c))
  /\ UNCHANGED hostVars

delete_guest_lookup_as_bound(c, r) ==
  /\ phase[c] = "serving"
  /\ closed[c] = "open"
  /\ \A l \in leaving : <<l.conn, l.request>> # <<c, r>>
  /\ leaving' = leaving \cup {[conn |-> c, request |-> r, number |-> g.number,
                               outrun |-> FALSE] : g \in bound[c]}
  /\ asked' = asked \cup {PeerOf(c)}
  /\ UNCHANGED <<dbVars, daemon, phase, closed, bound, task, cli, raced>>

\* DELETE /v1/guest: guest_by_peer and remove_guest take the database lock
\* one after the other, and the first ignores revoked_at.
delete_guest_lookup(c, r) ==
  /\ phase[c] = "serving"
  /\ closed[c] = "open"
  /\ \A l \in leaving : <<l.conn, l.request>> # <<c, r>>
  /\ leaving' = leaving \cup {[conn |-> c, request |-> r, number |-> g.number,
                               outrun |-> FALSE] : g \in guest_by_peer(PeerOf(c))}
  /\ asked' = asked \cup {PeerOf(c)}
  /\ UNCHANGED <<dbVars, daemon, phase, closed, bound, task, cli, raced>>

delete_guest_remove_reopens(l) ==
  /\ leaving' = leaving \ {l}
  /\ guests' = {g \in guests : g.number # l.number}
  /\ invites' = {[i EXCEPT !.consumed = FALSE] : i \in invites}
  /\ UNCHANGED <<clock, grants, banned, daemon, phase, closed, bound, task, cli, raced, asked>>

delete_guest_remove(l) ==
  /\ leaving' = {[m EXCEPT !.outrun = @ \/ m.number = l.number] : m \in leaving \ {l}}
  /\ remove_guest(l.number)
  /\ UNCHANGED <<daemon, phase, closed, bound, task, cli, raced, asked>>

----------------------------------------------------------------------------
(***************************************************************************)
(* Operations on the daemon: the IPC server answers one request at a time; *)
(* a signal makes the accept loop run the same shutdown concurrently.      *)
(***************************************************************************)

\* `waserver invite`.
invite(s, u) ==
  /\ Alive
  /\ task["ipc"] = Idle
  /\ create_invite(s, u)
  /\ UNCHANGED hostVars

\* ServingHandle::revoke_guest: first the database ...
revoke(n) ==
  /\ Alive
  /\ task["ipc"] = Idle
  /\ revoke_guest(n)
  /\ task' = [task EXCEPT !["ipc"] = [op |-> "revoke", step |-> "close", number |-> n]]
  /\ UNCHANGED <<daemon, phase, closed, bound, leaving, cli, raced, asked>>

shutdown(a) ==
  /\ daemon = "up"
  /\ task[a] = Idle
  /\ task' = [task EXCEPT ![a] = [op |-> "shutdown", step |-> "close", number |-> 0]]
  /\ UNCHANGED <<dbVars, daemon, phase, closed, bound, leaving, cli, raced, asked>>

\* The connections a task's close_connections is about, and those of them the
\* registry holds.
Meant_no_guest(a) == {c \in Conns : task[a].op = "shutdown"}

Meant(a) ==
  {c \in Conns : \/ task[a].op = "shutdown"
                 \/ \E g \in bound[c] : g.number = task[a].number}
Which(a) == {c \in Meant(a) : phase[c] = "serving"}

CodeOf_operation(a) == task[a].op

CodeOf(a) == IF task[a].op = "revoke" THEN "Revoked" ELSE "Closing"

\* After close_connections: a revoke answers, a shutdown closes the endpoint.
Closed_endpoint_open(a) == Idle

Closed(a) == IF task[a].op = "revoke" THEN Idle ELSE [task[a] EXCEPT !.step = "endpoint"]

\* ... then close_connections: one pass over the registry under its read lock,
\* which does not see a task that has looked its guest up and not registered.
close_connections(a) ==
  /\ task[a].step = "close"
  /\ closed' = [c \in Conns |->
                  IF c \in Which(a) /\ closed[c] = "open" THEN CodeOf(a) ELSE closed[c]]
  /\ task' = [task EXCEPT ![a] = IF Which(a) = {} THEN Closed(a) ELSE [@ EXCEPT !.step = "wait"]]
  /\ raced' = IF task[a].op = "revoke"
              THEN raced \cup {c \in Meant(a) : phase[c] = "bound"} ELSE raced
  /\ UNCHANGED <<dbVars, daemon, phase, bound, leaving, cli, asked>>

\* It polls until none of them is registered; a newcomer counts as well.
closes_done(a) ==
  /\ task[a].step = "wait"
  /\ Which(a) = {}
  /\ task' = [task EXCEPT ![a] = Closed(a)]
  /\ UNCHANGED <<dbVars, daemon, phase, closed, bound, leaving, cli, raced, asked>>

closes_given_up_never(a) == FALSE /\ task[a] = Idle /\ UNCHANGED vars

\* CLOSE_GRACE has passed.
closes_given_up(a) ==
  /\ task[a].step = "wait"
  /\ Which(a) # {}
  /\ task' = [task EXCEPT ![a] = Closed(a)]
  /\ UNCHANGED <<dbVars, daemon, phase, closed, bound, leaving, cli, raced, asked>>

\* HostNode::shutdown: the endpoint closes every connection it still has.
close_endpoint(a) ==
  /\ task[a].step = "endpoint"
  /\ daemon = "up"
  /\ daemon' = "closed"
  /\ closed' = [c \in Conns |->
                  IF phase[c] \notin {"idle", "gone"} /\ closed[c] = "open"
                  THEN "Closing" ELSE closed[c]]
  /\ UNCHANGED <<dbVars, phase, bound, leaving, task, cli, raced, asked>>

\* The process ends: every task of it is gone, the database stays.
Terminate ==
  /\ daemon' = "down"
  /\ phase' = [c \in Conns |-> IF phase[c] = "idle" THEN "idle" ELSE "gone"]
  /\ closed' = [c \in Conns |-> IF phase[c] # "idle" /\ closed[c] = "open"
                                THEN "lost" ELSE closed[c]]
  /\ bound' = [c \in Conns |-> {}]
  /\ leaving' = {}
  /\ task' = [a \in Actors |-> Idle]
  /\ UNCHANGED <<dbVars, cli, raced, asked>>

\* run() returned and serve() with it: the accept loop sees the closed endpoint,
\* unless it is in its signal branch, which first finishes its own shutdown.
exit ==
  /\ daemon = "closed"
  /\ task["signal"].step \in {"none", "endpoint"}
  /\ Terminate

crash == Alive /\ Terminate

start ==
  /\ daemon = "down"
  /\ daemon' = "up"
  /\ UNCHANGED <<dbVars, phase, closed, bound, leaving, task, cli, raced, asked>>

\* `waserver revoke` in its own process: it could not connect to a daemon and
\* goes to the database itself, by when a daemon may be up.
cli_connect_failed(n) ==
  /\ daemon = "down"
  /\ cli' = cli \cup {n}
  /\ UNCHANGED <<dbVars, daemon, phase, closed, bound, leaving, task, raced, asked>>

cli_revoke(n) ==
  /\ cli' = cli \ {n}
  /\ \/ revoke_guest(n)
     \/ n \notin Numbers /\ UNCHANGED dbVars
  /\ raced' = raced \cup {c \in Conns : \E b \in bound[c] : b.number = n}
  /\ UNCHANGED <<daemon, phase, closed, bound, leaving, task, asked>>

clock_ticks == Tick /\ UNCHANGED hostVars

----------------------------------------------------------------------------
ConnTask(c) ==
  \/ lookup_revoked(c)
  \/ lookup_guest(c)
  \/ lookup_unknown(c)
  \/ activation_ended(c)
  \/ activation_refused(c)
  \/ activation_failed(c)
  \/ recheck_guest(c)
  \/ recheck_refused(c)
  \/ refusal_grace_over(c)
  \/ register_connection(c)
  \/ unregister_connection(c)

CloseTask(a) ==
  \/ close_connections(a)
  \/ closes_done(a)
  \/ closes_given_up(a)
  \/ close_endpoint(a)

Next ==
  \/ \E c \in Conns :
       \/ accept(c)
       \/ ConnTask(c)
       \/ lookup_failed(c)
       \/ activation_stream(c)
       \/ activation_answered(c)
       \/ peer_gone(c)
       \/ \E s \in Secrets : post_activation(c, s) \/ post_activation_again(c, s)
       \/ \E r \in Requests : delete_guest_lookup(c, r)
  \/ \E l \in leaving : delete_guest_remove(l)
  \/ \E s \in Secrets, u \in Users : invite(s, u)
  \/ \E n \in Numbers : revoke(n)
  \/ \E a \in Actors : shutdown(a) \/ CloseTask(a)
  \/ exit
  \/ crash
  \/ start
  \/ \E n \in Numbers : cli_connect_failed(n)
  \/ \E n \in cli : cli_revoke(n)
  \/ clock_ticks

Spec == Init /\ [][Next]_vars

\* tokio polls every task that can proceed, and timers fire: the host's own
\* steps are fair.  Nothing obliges a peer, an operator or the network to act:
\* in particular a peer need never finish the stream it opened.
Fairness ==
  /\ \A c \in Conns : WF_vars(ConnTask(c))
  /\ \A a \in Actors : WF_vars(CloseTask(a))
  /\ WF_vars(\E l \in leaving : delete_guest_remove(l))
  /\ WF_vars(exit)

FairSpec == Spec /\ Fairness

----------------------------------------------------------------------------
(***************************************************************************)
(* Properties.                                                             *)
(***************************************************************************)

\* serve_guest: the identity a connection's data streams carry is that of an
\* invite its own peer redeemed, whatever happened to the guest's row since the
\* connection's one lookup.
ServedIsGranted ==
  \A c \in Conns : \A g \in bound[c] :
    \E i \in invites : <<i.secret, PeerOf(c)>> \in grants /\ i.user = g.user

\* ServingHandle::revoke_guest against handle_incoming: a connection that is
\* still open and served although its guest is revoked is about to be closed by
\* the revocation in progress, or is one the revocation could not see - the
\* connection looked its guest up before the revocation and registered after
\* the registry was read, or the revocation bypassed the daemon, or the guest
\* left and came back under another number.
RevokeMissesOnlyRaces ==
  \A c \in Conns : \A g \in guests :
    (phase[c] = "serving" /\ closed[c] = "open" /\ g.peer = PeerOf(c) /\ g.revoked)
    => \/ c \in raced
       \/ \A b \in bound[c] : b.number # g.number
       \/ /\ task["ipc"].op = "revoke"
          /\ task["ipc"].step = "close"
          /\ task["ipc"].number = g.number

\* What makes RevokeMissesOnlyRaces inductive: only a task that resolved its
\* guest holds one, and the same claim for connections not yet registered.
BoundWhileServed ==
  \A c \in Conns : bound[c] # {} => phase[c] \in {"bound", "serving"}

RevokePending(n) ==
  /\ task["ipc"].op = "revoke"
  /\ task["ipc"].step = "close"
  /\ task["ipc"].number = n

RevokedSeen ==
  \A c \in Conns : \A b \in bound[c] : \A g \in guests :
    (g.peer = PeerOf(c) /\ g.revoked /\ b.number = g.number)
    => \/ c \in raced
       \/ RevokePending(g.number)
       \/ phase[c] = "serving" /\ closed[c] # "open"

HostInv == BoundWhileServed /\ RevokedSeen /\ ServedIsGranted

\* close_connections: a revocation answers its operator, although connections
\* that keep registering count as pending.
RevokeReturns == (task["ipc"].op = "revoke") ~> (task["ipc"].op # "revoke")

\* ServingHandle::revoke_guest: a registered connection of the revoked number
\* is closed and unregistered.
RevokedCutOff ==
  \A c \in Conns :
    (/\ task["ipc"].op = "revoke"
     /\ task["ipc"].step = "close"
     /\ phase[c] = "serving"
     /\ \E g \in bound[c] : g.number = task["ipc"].number) ~> (phase[c] = "gone")

\* ServingHandle::shutdown: `waserver stop` and a signal end the process, also
\* when both come together and while connections keep arriving.
ShutdownCompletes ==
  \A a \in Actors : (task[a].op = "shutdown") ~> (daemon = "down")

\* delete_guest, between its two calls, against other requests, a revocation
\* and the re-use of the number: a guest's row goes by a request of its own
\* peer, never by one that looked the number up when it was another's - unless
\* that one was outrun: its peer sent two, the other removed its row, and the
\* number was given to a newcomer before it came to its second call.
LeavesTakeTheirOwn ==
  [][\A g \in guests : guest_by_peer(g.peer)' = {} =>
       \E l \in leaving \ leaving' :
         l.number = g.number /\ (PeerOf(l.conn) = g.peer \/ l.outrun)]_vars

\* What makes it inductive: a request is answered before the next one like it
\* is sent, and one in flight that was not outrun holds its own peer's number.
LeavesNamed ==
  /\ \A l, m \in leaving : l.conn = m.conn /\ l.request = m.request => l = m
  /\ \A l \in leaving : l.outrun \/ \E g \in guest_by_peer(PeerOf(l.conn)) : g.number = l.number

\* StateDb::revoke_guest keeps the row, so that the key is never bound again:
\* true through restarts, retries, later invites and races of connections,
\* unless a DELETE is sent, which removes the row of a revoked guest too, or the
\* row of the next guest that got its number.
BarredUnlessLeft == \A g \in guests : (g.peer \in banned /\ ~g.revoked) => asked # {}
=============================================================================
