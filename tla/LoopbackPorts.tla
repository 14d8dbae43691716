--------------------------- MODULE LoopbackPorts ---------------------------
(***************************************************************************)
(* The ports the SDK's proxies serve on the loopback device                *)
(* (sdk/src/lib.rs: PerAppProxy, PerShareForwardProxy, LoopbackForwarder   *)
(* and BoundPort; loopback.rs).                                            *)
(*                                                                         *)
(* A port is bound by whoever asks for it first, into a cell the other     *)
(* callers wait for; it is remembered in the database, bound again after   *)
(* the operating system reclaimed it, and released.  An accept loop that   *)
(* is aborted keeps its socket until the runtime gets to drop it, and any  *)
(* other process may take a port in between.                               *)
(***************************************************************************)
EXTENDS Integers, FiniteSetsExt, Functions

CONSTANTS Keys,      \* shares, or apps of shares
          NumPorts,  \* loopback ports there are
          Wants,     \* the loopback ports of each share's apps
          Kinds,     \* of {"per-app", "per-share", "forwarder"}
          Tasks,     \* calls in progress at once
          NumCells   \* bound: BoundPorts that are in use at once

Ports == 1 .. NumPorts

ASSUME KindsAssumption == Kinds \subseteq {"per-app", "per-share", "forwarder"}
ASSUME WantsAssumption == NumPorts \in Nat /\ Wants \in [Keys -> SUBSET Ports \ {{}}]
ASSUME CellsAssumption == NumCells \in Nat
\* `None` is neither a share nor a call.
ASSUME NoneAssumption == "none" \notin Keys \cup Tasks

VARIABLES kind,       \* which proxy this is
          joined,     \* shares the client has a row of
          memo,       \* app_ports, forward_proxy_port: the port to come back to
          cellOf,     \* bound_ports: each key's cell
          fwd,        \* the ports of each share's forwarder, while the app holds it
          lock,       \* the mutex over the forwarders
          bp,         \* BoundPorts
          sock,       \* who listens on each port
          closing,    \* BoundPorts whose accept loops are aborted and not dropped
          task,
          down        \* history: reclaimed, or taken when bound again

vars == <<kind, joined, memo, cellOf, fwd, lock, bp, sock, closing, task, down>>
proxy == <<kind, joined, memo, cellOf, fwd, lock>>

Free == 0
Other == -1   \* another process
Leaked == -2  \* bound for a cell that was released meanwhile: nobody can close it
Cells == 1 .. NumCells
None == "none"
Idle == [op |-> None, key |-> None, cell |-> 0, step |-> None, port |-> 0, todo |-> {}]
Empty == [state |-> "empty", port |-> 0, loops |-> FALSE]

BoundPort == [state : {"empty", "binding", "set"}, port : Ports \cup {0}, loops : BOOLEAN]
Call == [op : {None, "port", "lock", "rebind", "forward"}, key : Keys \cup {None}, cell : Cells \cup {0},
         step : {None, "get", "fresh", "again", "next", "await", "bind"},
         port : Ports \cup {0}, todo : SUBSET Cells]

PortsTypeOK ==
  /\ kind \in Kinds
  /\ joined \subseteq Keys
  /\ memo \in [Keys -> Ports \cup {0}]
  /\ cellOf \in [Keys -> Cells \cup {0}]
  /\ fwd \in [Keys -> SUBSET Cells]
  /\ lock \in Tasks \cup {None}
  /\ bp \in [Cells -> BoundPort]
  /\ sock \in [Ports -> Cells \cup {Free, Other, Leaked}]
  /\ closing \subseteq Range(sock) \cap Cells
  /\ task \in [Tasks -> Call]
  /\ down \subseteq Cells

PortsInit ==
  /\ kind \in Kinds /\ joined = Keys
  /\ memo = [k \in Keys |-> 0] /\ cellOf = [k \in Keys |-> 0] /\ fwd = [k \in Keys |-> {}]
  /\ lock = None /\ bp = [c \in Cells |-> Empty]
  /\ sock = [p \in Ports |-> Free] /\ closing = {}
  /\ task = [t \in Tasks |-> Idle]
  /\ down = {}

-----------------------------------------------------------------------------
Forwarded == UNION Range(fwd)
Held(c) == \E t \in Tasks : task[t].cell = c \/ c \in task[t].todo

Return(t) == task' = [task EXCEPT ![t] = Idle]
Go(t, step) == task' = [task EXCEPT ![t].step = step]

\* What the proxy or a forwarder has; the rest goes with the last call that
\* holds it.
Owned(c) ==
  \/ \E k \in Keys : cellOf[k] = c \/ c \in fwd[k]
  \/ \E t \in Tasks : task[t].op = "forward" /\ c \in task[t].todo

Unused == {c \in Cells : /\ bp[c] = Empty /\ ~Owned(c) /\ ~Held(c)
                          /\ \A p \in Ports : sock[p] # c}
NewCell == Min(Unused)

Drops(t, c) == /\ ~Owned(c) /\ c \notin task[t].todo
               /\ \A u \in Tasks \ {t} : task[u].cell # c /\ c \notin task[u].todo

Let(t, c, record) == bp' = [bp EXCEPT ![c] = IF Drops(t, c) THEN Empty ELSE record]

\* bind_port, on both loopback addresses at once, and BoundPort::serve.
Bound(t, c, p) ==
  /\ sock' = [sock EXCEPT ![p] = IF Owned(c) THEN c ELSE Leaked]
  /\ Let(t, c, [state |-> "set", port |-> p, loops |-> TRUE])

\* BoundPort::release: the accept loops are aborted.  What no call holds is
\* forgotten.
Released(cs, gone) ==
  /\ closing' = closing \cup ({c \in cs : bp[c].loops} \cap Range(sock))
  /\ bp' = [c \in Cells |-> IF c \in gone THEN Empty ELSE bp[c]]
  /\ down' = down \ cs

\* The runtime drops aborted accept loops, and with them the listeners; whoever
\* awaits them goes on.
Dropped(cs) ==
  /\ closing' = closing \ cs
  /\ sock' = [p \in Ports |-> IF sock[p] \in cs THEN Free ELSE sock[p]]
  /\ task' = [t \in Tasks |-> IF task[t].step = "await" /\ task[t].cell \in cs
                               THEN [task[t] EXCEPT !.step = "bind"] ELSE task[t]]

loop_dropped(c) ==
  /\ c \in closing
  /\ Dropped({c})
  /\ UNCHANGED <<proxy, bp, down>>

-----------------------------------------------------------------------------
(* PerAppProxy::app_port and PerShareForwardProxy::share_port *)

app_port(t, k) ==
  /\ kind # "forwarder" /\ task[t] = Idle
  /\ cellOf[k] # 0 \/ Unused # {}
  /\ LET c == IF cellOf[k] = 0 THEN NewCell ELSE cellOf[k] IN
     /\ cellOf' = [cellOf EXCEPT ![k] = c]
     /\ task' = [task EXCEPT ![t] = [Idle EXCEPT !.op = "port", !.key = k, !.cell = c, !.step = "get"]]
  /\ UNCHANGED <<kind, joined, memo, fwd, lock, bp, sock, closing, down>>

At(t, step) == task[t].op = "port" /\ task[t].step = step

already_bound(t) ==
  /\ At(t, "get") /\ bp[task[t].cell].state = "set"
  /\ Let(t, task[t].cell, bp[task[t].cell])
  /\ Return(t)
  /\ UNCHANGED <<proxy, sock, closing, down>>

\* One caller binds, the others wait for the cell; a share that was left has
\* no row any more.  Callers stay: one that is cancelled would leave a task that
\* writes the port it bound for nobody, and no client cancels one.
get_or_try_init(t) ==
  /\ At(t, "get") /\ bp[task[t].cell].state = "empty"
  /\ IF task[t].key \in joined
       THEN /\ task' = [task EXCEPT ![t].step = IF memo[task[t].key] = 0 THEN "fresh" ELSE "again",
                                    ![t].port = memo[task[t].key]]
            /\ bp' = [bp EXCEPT ![task[t].cell].state = "binding"]
       ELSE Let(t, task[t].cell, Empty) /\ Return(t)
  /\ UNCHANGED <<proxy, sock, closing, down>>

rebind_port(t) ==
  /\ At(t, "again") /\ sock[task[t].port] = Free
  /\ Bound(t, task[t].cell, task[t].port)
  /\ Return(t)
  /\ UNCHANGED <<proxy, closing, down>>

\* The remembered port is taken, for longer than REBIND_PATIENCE with
\* share_port and at the first try with app_port.
port_taken(t) ==
  /\ At(t, "again") /\ sock[task[t].port] # Free
  /\ Go(t, "fresh")
  /\ UNCHANGED <<proxy, bp, sock, closing, down>>

\* bind_port(0), then write_forward_proxy_port or write_app_port.  The former
\* updates the share's row, if there is one; the latter needs one.
write_port(t, p) ==
  /\ At(t, "fresh") /\ sock[p] = Free
  /\ kind = "per-share" \/ task[t].key \in joined
  /\ Bound(t, task[t].cell, p)
  /\ memo' = IF task[t].key \in joined THEN [memo EXCEPT ![task[t].key] = p] ELSE memo
  /\ Return(t)
  /\ UNCHANGED <<kind, joined, cellOf, fwd, lock, closing, down>>

bind_failed_binding(t) ==
  /\ At(t, "fresh")
  /\ \/ \A p \in Ports : sock[p] # Free
     \/ kind = "per-app" /\ task[t].key \notin joined
  /\ Return(t)
  /\ UNCHANGED <<proxy, bp, sock, closing, down>>

bind_failed(t) ==
  /\ At(t, "fresh")
  /\ \/ \A p \in Ports : sock[p] # Free
     \/ kind = "per-app" /\ task[t].key \notin joined
  /\ Let(t, task[t].cell, Empty)
  /\ Return(t)
  /\ UNCHANGED <<proxy, sock, closing, down>>

\* Client::leave deletes the row.
leave(k) ==
  /\ k \in joined
  /\ joined' = joined \ {k} /\ memo' = [memo EXCEPT ![k] = 0]
  /\ UNCHANGED <<kind, cellOf, fwd, lock, bp, sock, closing, task, down>>

release_keeps_loops(k) ==
  /\ kind = "per-share" /\ k \notin joined /\ cellOf[k] # 0
  /\ cellOf' = [cellOf EXCEPT ![k] = 0]
  /\ UNCHANGED <<kind, joined, memo, fwd, lock, bp, sock, closing, task, down>>

\* PerShareForwardProxy::release, after the share was left.  A cell that is
\* still being bound has nothing to release.
release(k) ==
  /\ kind = "per-share" /\ k \notin joined /\ cellOf[k] # 0
  /\ cellOf' = [cellOf EXCEPT ![k] = 0]
  /\ Released({cellOf[k]}, {c \in {cellOf[k]} : ~Held(c)})
  /\ UNCHANGED <<kind, joined, memo, fwd, lock, sock, task>>

\* The proxy is dropped, when no call borrows it, and another one started.  A
\* rebind whose caller was cancelled goes on by itself.
drop_proxy ==
  /\ kind # "forwarder" /\ \A t \in Tasks : task[t].op # "port"
  /\ Range(cellOf) # {0}
  /\ cellOf' = [k \in Keys |-> 0]
  /\ Released(Range(cellOf) \ {0}, {c \in Range(cellOf) \ {0} : ~Held(c)})
  /\ UNCHANGED <<kind, joined, memo, fwd, lock, sock, task>>

-----------------------------------------------------------------------------
(* forward_loopback_origins *)

\* Both calls below wait for the mutex first.
Waits(t, k) ==
  task' = [task EXCEPT ![t] = [Idle EXCEPT !.op = "lock", !.key = k]]

forward_loopback_origins(t, k) ==
  /\ kind = "forwarder" /\ task[t] = Idle
  /\ Waits(t, k)
  /\ UNCHANGED <<proxy, bp, sock, closing, down>>

\* A live forwarder of the share is handed out again; a share that was left has
\* no row.
forward_locked(t) ==
  LET k == task[t].key IN
  /\ task[t].op = "lock" /\ k # None /\ lock = None
  /\ IF fwd[k] = {} /\ k \in joined
       THEN /\ lock' = t
            /\ task' = [task EXCEPT ![t] = [Idle EXCEPT !.op = "forward", !.key = k]]
       ELSE Return(t) /\ UNCHANGED lock
  /\ UNCHANGED <<kind, joined, memo, cellOf, fwd, bp, sock, closing, down>>

Missing(t) == Wants[task[t].key] \ {bp[c].port : c \in task[t].todo}

\* A live forwarder has the port, if it lost the socket too, or anybody else.
Taken(p) == sock[p] # Free \/ \E c \in Forwarded : bp[c].port = p

\* The share's ports are bound in turn, each in a cell of its own.
forward_port(t) ==
  /\ task[t].op = "forward" /\ Missing(t) # {} /\ ~Taken(Min(Missing(t)))
  /\ Unused # {}
  /\ sock' = [sock EXCEPT ![Min(Missing(t))] = NewCell]
  /\ bp' = [bp EXCEPT ![NewCell] = [state |-> "set", port |-> Min(Missing(t)), loops |-> TRUE]]
  /\ task' = [task EXCEPT ![t].todo = @ \cup {NewCell}]
  /\ UNCHANGED <<proxy, closing, down>>

\* SdkError::PortInUse: the ports bound so far go with the forwarder.
port_in_use(t) ==
  /\ task[t].op = "forward" /\ Missing(t) # {} /\ Taken(Min(Missing(t)))
  /\ Released(task[t].todo, task[t].todo)
  /\ lock' = None
  /\ Return(t)
  /\ UNCHANGED <<kind, joined, memo, cellOf, fwd, sock>>

forwarding(t) ==
  /\ task[t].op = "forward" /\ Missing(t) = {}
  /\ fwd' = [fwd EXCEPT ![task[t].key] = task[t].todo]
  /\ lock' = None
  /\ Return(t)
  /\ UNCHANGED <<kind, joined, memo, cellOf, bp, sock, closing, down>>

\* The last reference goes; a rebind has one of its own.
drop_forwarder(k) ==
  /\ fwd[k] # {} /\ \A c \in fwd[k] : ~Held(c)
  /\ Released(fwd[k], fwd[k])
  /\ fwd' = [fwd EXCEPT ![k] = {}]
  /\ UNCHANGED <<kind, joined, memo, cellOf, lock, sock, task>>

-----------------------------------------------------------------------------
(* rebind: every port that is bound by then, one after the other *)

Begins(t, cells) ==
  task' = [task EXCEPT ![t] = [Idle EXCEPT !.op = "rebind", !.step = "next", !.todo = cells]]

\* PerAppProxy::rebind takes the cells there are; the forward proxy's waits for
\* the forwarders.
rebind(t) ==
  /\ kind # "per-share" /\ task[t] = Idle
  /\ IF kind = "per-app" THEN Begins(t, Range(cellOf) \ {0}) ELSE Waits(t, None)
  /\ UNCHANGED <<proxy, bp, sock, closing, down>>

rebind_locked(t) ==
  /\ task[t].op = "lock" /\ task[t].key = None /\ lock = None
  /\ Begins(t, Forwarded)
  /\ UNCHANGED <<proxy, bp, sock, closing, down>>

Rebinds(t, step) == task[t].op = "rebind" /\ task[t].step = step

rebind_take_unawaited(t, c) ==
  /\ Rebinds(t, "next") /\ c \in task[t].todo /\ bp[c].state = "set"
  /\ bp' = [bp EXCEPT ![c].loops = FALSE]
  /\ closing' = closing \cup ({c} \cap Range(sock))
  /\ task' = [task EXCEPT ![t].todo = @ \ {c}, ![t].cell = c, ![t].step = "bind"]
  /\ UNCHANGED <<proxy, sock, down>>

\* The handles are taken out of the mutex, aborted and awaited.
rebind_take(t, c) ==
  /\ Rebinds(t, "next") /\ c \in task[t].todo /\ bp[c].state = "set"
  /\ bp' = [bp EXCEPT ![c].loops = FALSE]
  /\ closing' = closing \cup {d \in {c} \cap Range(sock) : bp[d].loops}
  /\ task' = [task EXCEPT ![t].todo = @ \ {c}, ![t].cell = c,
                          ![t].step = IF bp[c].loops /\ c \in Range(sock) THEN "await" ELSE "bind"]
  /\ UNCHANGED <<proxy, sock, down>>

\* Not bound when its turn comes.
rebind_skip(t, c) ==
  /\ Rebinds(t, "next") /\ c \in task[t].todo /\ bp[c].state # "set"
  /\ task' = [task EXCEPT ![t].todo = @ \ {c}]
  /\ UNCHANGED <<proxy, bp, sock, closing, down>>

\* A port that cannot be bound again stays unserved, with a warning.
rebind_bind(t) ==
  LET c == task[t].cell
      p == bp[c].port IN
  /\ Rebinds(t, "bind")
  /\ IF sock[p] = Free THEN Bound(t, c, p) ELSE Let(t, c, bp[c]) /\ UNCHANGED sock
  /\ down' = CASE sock[p] = Free -> down \ {c}
               [] Owned(c) /\ sock[p] \notin {Free, c} -> down \cup {c}
               [] OTHER -> down
  /\ task' = [task EXCEPT ![t].cell = 0, ![t].step = "next"]
  /\ UNCHANGED <<proxy, closing>>

rebound(t) ==
  /\ Rebinds(t, "next") /\ task[t].todo = {}
  /\ Return(t)
  /\ UNCHANGED <<proxy, bp, sock, closing, down>>

-----------------------------------------------------------------------------
(* The device *)

\* iOS takes the listening sockets of a suspended app.
os_reclaims ==
  /\ kind # "per-share" /\ Range(sock) \cap (Cells \cup {Leaked}) # {}
  /\ Dropped(Cells \cup {Leaked})
  /\ down' = down \cup {c \in Range(sock) \cap Cells : Owned(c)}
  /\ UNCHANGED <<proxy, bp>>

other_process(p) ==
  /\ sock[p] \in {Free, Other}
  /\ sock' = [sock EXCEPT ![p] = IF @ = Free THEN Other ELSE Free]
  /\ UNCHANGED <<proxy, bp, closing, task, down>>

-----------------------------------------------------------------------------
Works(t) ==
  \/ /\ task[t].op = "port"
     /\ \/ already_bound(t) \/ get_or_try_init(t) \/ rebind_port(t) \/ port_taken(t)
        \/ bind_failed(t) \/ \E p \in Ports : write_port(t, p)
  \/ task[t].op = "lock" /\ (forward_locked(t) \/ rebind_locked(t))
  \/ task[t].op = "forward" /\ (forward_port(t) \/ port_in_use(t) \/ forwarding(t))
  \/ /\ task[t].op = "rebind"
     /\ \/ \E c \in task[t].todo : rebind_take(t, c) \/ rebind_skip(t, c)
        \/ rebind_bind(t) \/ rebound(t)

PortsNext ==
  \/ \E t \in Tasks : Works(t) \/ rebind(t)
  \/ \E t \in Tasks, k \in Keys : app_port(t, k) \/ forward_loopback_origins(t, k)
  \/ \E k \in Keys : leave(k) \/ release(k) \/ drop_forwarder(k)
  \/ \E c \in Cells : loop_dropped(c)
  \/ \E p \in Ports : other_process(p)
  \/ drop_proxy \/ os_reclaims

PortsSpec == PortsInit /\ [][PortsNext]_vars

\* What one call at a time gets past: the semaphore of a OnceCell and tokio's
\* mutex serve the callers that wait for them in turn.
Turn(t) == get_or_try_init(t) \/ forward_locked(t) \/ rebind_locked(t)

\* The runtime polls every call, and drops the aborted task a call waits for.
Runs(t) == Works(t) \/ (task[t].step = "await" /\ loop_dropped(task[t].cell))

PortsLiveSpec ==
  /\ PortsSpec
  /\ \A t \in Tasks : WF_vars(Runs(t)) /\ SF_vars(Turn(t))

-----------------------------------------------------------------------------
(* Properties *)

\* A port that is served belongs to a key the proxy has, or to a forwarder the
\* app holds or is about to get: release and drop close what was bound.  Only a
\* port that is being bound, or bound again, while it is released stays open
\* for good, with nothing left that could close it.
OpenIsOwned ==
  \A c \in Range(sock) \cap Cells : Owned(c) \/ c \in closing

\* A browser that was started with a share's port finds it again: the port
\* that is served for a share of this client is the one in the database.
RememberedIsServed ==
  \A k \in joined : cellOf[k] # 0 /\ bp[cellOf[k]].state = "set" => memo[k] = bp[cellOf[k]].port

\* Between rebinds a bound port is served, unless the system reclaimed it since
\* or somebody else had it when it was to be bound again; rebinds that overlap
\* do not undo each other.
ServedUnlessTaken ==
  \A c \in (Range(cellOf) \ {0}) \cup Forwarded :
    bp[c].state = "set" /\ ~Held(c) /\ c \notin down => sock[bp[c].port] = c /\ c \notin closing

\* A browser finds its port: the one that was remembered, and served
\* (RememberedIsServed, ServedUnlessTaken).
PortsInv == PortsTypeOK /\ RememberedIsServed /\ ServedUnlessTaken

\* Every call returns: those that wait for another's cell, for the forwarders'
\* mutex or for accept loops to end too.
PortCallsReturn == \A t \in Tasks : task[t].op # None ~> task[t].op = None
=============================================================================
