----------------------------- MODULE GuestNode -----------------------------
(***************************************************************************)
(* One restored guest node of the SDK (sdk/src/guest_node.rs), the cached  *)
(* connection of its transport (sdk/src/iroh_transport.rs and              *)
(* sdk/src/wispers_connect_transport.rs) and the stored copy of the share  *)
(* it keeps up to date by asking the host node (guest_api.rs, serving.rs). *)
(*                                                                         *)
(* Proxied requests, refreshes and connection checks run as concurrent     *)
(* tasks.  They share one slot for the connection: a cell that is filled   *)
(* once and replaced whole.  A task keeps the cell it found across every   *)
(* await, so what it does to the slot later may be about a connection that *)
(* others have given up and replaced.                                      *)
(***************************************************************************)
EXTENDS Naturals, Sequences, FiniteSets, FiniteSetsExt

CONSTANTS Tasks,       \* calls in progress at once
          Kinds,       \* transports, of {"iroh", "wispers-connect"}
          MaxVersion,  \* bound: how often the host node's config changes
          MaxFaults    \* bound: lost connections, failed dials and writes,
                       \* dropped slots, host nodes replaced

ASSUME KindsAssumption == Kinds \subseteq {"iroh", "wispers-connect"}
ASSUME GuestBounds == MaxVersion \in Nat /\ MaxFaults \in Nat /\ IsFiniteSet(Tasks)

VARIABLES kind,     \* the share's transport, set when it was joined
          host,     \* external: what the host node holds this device to be
          config,   \* the host node's config, by its hash
          tooOld,   \* whether the host node turns this SDK away
          slot,     \* each cell's connection
          cell,     \* the current cell
          gate,     \* probe_gate: its holder, then those waiting, in order
          dead,     \* GuestNode.dead
          used,     \* whether last_used is set
          row,      \* the share's row
          unseen,   \* whether the observer was not told of the row as it is
          storeOk,  \* whether every call of the store succeeded so far
          faults,   \* how many faults there were
          task

hostVars == <<kind, host, config, tooOld>>
net == <<slot, cell>>
stored == <<row, unseen, storeOk>>
vars == <<hostVars, net, gate, dead, used, stored, faults, task>>

None == "none"
Terminal == {"revoked", "removed"}
Joined == [hash |-> 0, outdated |-> FALSE, terminal |-> None]
Idle == [op |-> "none", step |-> "idle", cell |-> 0, first |-> FALSE, got |-> 0, snap |-> Joined]

\* A cell that nobody holds is used again: an Arc<OnceCell> frees itself, and
\* its connection with it.
Cells == 1 .. Cardinality(Tasks) + 1

\* A connection the host node will not serve is "unserved" until it closes
\* it.  A closed one keeps its code; "closing" is every close that is not one
\* of the contract's terminal codes.
Ended == {"closing", "revoked", "unknown"}
Up == {"open", "unserved"}
ConnStates == {None, "stalled"} \cup Up \cup Ended

Steps == {"idle", "gate", "init", "connecting", "open", "probe", "row",
          "asked", "answered", "info", "notify", "tell"}

\* What a refresh holds: a config version, or what stands for no body.
Unchanged == MaxVersion + 1
Refused == MaxVersion + 2

\* snap is the row a call has read back and not yet handed to the observer.
Row == [hash : 0 .. MaxVersion, outdated : BOOLEAN, terminal : Terminal \cup {None}]
Call == [op : {"none", "stream", "refresh", "check"}, step : Steps, cell : Cells \cup {0},
         first : BOOLEAN, got : 0 .. MaxVersion + 2, snap : Row]

GuestTypeOK ==
  /\ kind \in Kinds
  /\ host \in {"guest", "revoked", "unknown"}
  /\ config \in 0 .. MaxVersion
  /\ tooOld \in BOOLEAN
  /\ slot \in [Cells -> ConnStates]
  /\ cell \in Cells
  /\ gate \in Seq(Tasks)
  /\ dead \in Terminal \cup {None}
  /\ used \in BOOLEAN
  /\ row \in Row
  /\ unseen \in BOOLEAN
  /\ storeOk \in BOOLEAN
  /\ faults \in 0 .. MaxFaults
  /\ task \in [Tasks -> Call]

GuestInit ==
  /\ kind \in Kinds
  /\ host = "guest"
  /\ config = 0
  /\ tooOld = FALSE
  /\ slot = [k \in Cells |-> None]
  /\ cell = 1
  /\ gate = <<>>
  /\ dead = None
  /\ used = FALSE
  /\ row = Joined
  /\ unseen = FALSE
  /\ storeOk = TRUE
  /\ faults = 0
  /\ task = [t \in Tasks |-> Idle]

At(t, step) == task[t].step = step
Go(t, step) == task' = [task EXCEPT ![t].step = step]
InCell(t) == slot[task[t].cell]
Fault == faults < MaxFaults /\ faults' = faults + 1

terminal_from_close_any(state) ==
  CASE state \in {"unknown", "closing"} -> "removed"
    [] state = "revoked" -> "revoked"
    [] OTHER -> None

\* terminal_from_close: only the contract's codes end a share for good.
terminal_from_close(state) ==
  CASE state = "unknown" -> "removed"
    [] state = "revoked" -> "revoked"
    [] OTHER -> None

Return_keeps_gate(t) ==
  /\ task' = [task EXCEPT ![t] = Idle]
  /\ gate' = gate

\* The call returns; a check also lets go of the gate it held to the end.
Return(t) ==
  /\ task' = [task EXCEPT ![t] = Idle]
  /\ gate' = IF task[t].op = "check" THEN Tail(gate) ELSE gate

\* What the tasks in holders, and the slot if it counts, keep alive.
Kept(holders, current) ==
  [k \in Cells |-> IF k \in current \cup {task[u].cell : u \in holders} THEN slot[k] ELSE None]

LetGo(t) ==
  /\ slot' = Kept(Tasks \ {t}, {cell})
  /\ UNCHANGED cell

\* A fresh cell in the slot; tasks keep the cells they hold.
Replace(holders) ==
  /\ slot' = Kept(holders, {})
  /\ cell' = Min(Cells \ {task[u].cell : u \in holders})

evict_whatever(t, k) == Replace(Tasks \ {t})

\* evict, by a task that is done with cell k: only the cell that failed is
\* replaced.
evict(t, k) == IF k = cell THEN Replace(Tasks \ {t}) ELSE LetGo(t)

\* record_terminal_error, up to the row: the flag is set first.
record_terminal_error(t, state) ==
  /\ dead' = state
  /\ task' = [task EXCEPT ![t].step = "row", ![t].cell = 0, ![t].first = FALSE]
  /\ UNCHANGED gate

----------------------------------------------------------------------------
(***************************************************************************)
(* Opening a stream.                                                       *)
(***************************************************************************)

\* A proxied request, a refresh or a check is asked for.  Requests and
\* refreshes look the share up first and end there if its row is terminal.
call(t, op) ==
  /\ task[t] = Idle
  /\ op = "check" \/ row.terminal = None
  /\ task' = [task EXCEPT ![t].op = op, ![t].step = "gate"]
  /\ gate' = Append(gate, t)
  /\ UNCHANGED <<hostVars, net, dead, used, stored, faults>>

\* The transport's open_stream begins: on the cached connection, or on the
\* cell that waits for one.
OnCell(t) ==
  task' = [task EXCEPT ![t].step = IF slot[cell] = None THEN "init" ELSE "open",
                       ![t].cell = cell,
                       ![t].first = slot[cell] # None]

\* open_stream: the gate is taken and let go of at once; a share known to be
\* dead is not dialled.
open_stream(t) ==
  /\ At(t, "gate") /\ task[t].op # "check" /\ Head(gate) = t
  /\ gate' = Tail(gate)
  /\ IF dead = None THEN OnCell(t) ELSE task' = [task EXCEPT ![t] = Idle]
  /\ UNCHANGED <<hostVars, net, dead, used, stored, faults>>

\* get_or_try_init: one task at a time initialises a cell, the others wait
\* for it.
cell_filled(t) ==
  /\ At(t, "init") /\ InCell(t) # None
  /\ Go(t, "open")
  /\ UNCHANGED <<hostVars, net, gate, dead, used, stored, faults>>

dial(t) ==
  /\ At(t, "init") /\ InCell(t) = None
  /\ \A u \in Tasks : task[u].cell = task[t].cell => ~At(u, "connecting")
  /\ Go(t, "connecting")
  /\ UNCHANGED <<hostVars, net, gate, dead, used, stored, faults>>

\* The handshake succeeds for any key; a host node that does not serve this
\* one closes the connection afterwards.  The hub brokers no connection for a
\* node it no longer serves.
dialled(t) ==
  /\ At(t, "connecting")
  /\ kind = "iroh" \/ host = "guest"
  /\ slot' = [slot EXCEPT ![task[t].cell] = IF host = "guest" THEN "open" ELSE "unserved"]
  /\ Go(t, "open")
  /\ UNCHANGED <<hostVars, cell, gate, dead, used, stored, faults>>

\* The next task waiting for the cell dials for itself.
dial_failed(t) ==
  /\ At(t, "connecting")
  /\ Fault
  /\ Return(t)
  /\ UNCHANGED <<hostVars, net, dead, used, stored>>

\* Wispers Connect: the hub itself says that this node was revoked, or that
\* it knows neither the node nor its group.
hub_refuses(t) ==
  /\ At(t, "connecting") /\ kind = "wispers-connect"
  /\ host # "guest"
  /\ record_terminal_error(t, IF host = "revoked" THEN "revoked" ELSE "removed")
  /\ UNCHANGED <<hostVars, net, used, stored, faults>>

\* A stream opens on any connection whose end has not been noticed, and is
\* the caller's.  A refresh goes on with the stored hash.
stream_opened(t) ==
  /\ At(t, "open") /\ InCell(t) \notin Ended
  /\ used' = TRUE
  /\ IF task[t].op = "refresh"
     THEN /\ task' = [task EXCEPT ![t].step = "asked", ![t].first = FALSE,
                               ![t].got = row.hash]
          /\ UNCHANGED <<gate, net>>
     ELSE Return(t) /\ LetGo(t)
  /\ UNCHANGED <<hostVars, dead, stored, faults>>

\* iroh: a stream opens locally before a close right after the handshake is
\* noticed, so the close reason is looked at once more.  The connection stays
\* cached.
stream_closed(t) ==
  LET state == terminal_from_close(InCell(t)) IN
  /\ At(t, "open") /\ kind = "iroh" /\ state # None
  /\ record_terminal_error(t, state)
  /\ LetGo(t)
  /\ UNCHANGED <<hostVars, used, stored, faults>>

\* open_stream_or_drop_connection, the error arm.  Only the first attempt, on
\* a connection found in the cache, is followed by a dial.
open_failed(t) ==
  LET state == terminal_from_close(InCell(t)) IN
  /\ At(t, "open") /\ InCell(t) \in Ended
  /\ evict(t, task[t].cell)
  /\ \/ state # None /\ record_terminal_error(t, state)
     \/ /\ state = None /\ task[t].first
        /\ task' = [task EXCEPT ![t].step = "init", ![t].cell = cell', ![t].first = FALSE]
        /\ UNCHANGED <<gate, dead>>
     \/ /\ state = None /\ ~task[t].first
        /\ Return(t)
        /\ UNCHANGED dead
  /\ UNCHANGED <<hostVars, used, stored, faults>>

\* record_terminal_error, the row.
record_row(t) ==
  /\ At(t, "row")
  /\ row' = [row EXCEPT !.terminal = dead]
  /\ unseen' = TRUE
  /\ Go(t, "notify")
  /\ UNCHANGED <<hostVars, net, gate, dead, used, storeOk, faults>>

\* The share is read back, then handed to the observer: another call may
\* write and tell in between, so the older share may be the last one told.
read_share(t) ==
  /\ At(t, "notify")
  /\ task' = [task EXCEPT ![t].step = "tell", ![t].got = 0, ![t].snap = row]
  /\ UNCHANGED <<hostVars, net, gate, dead, used, stored, faults>>

on_share_changed(t) ==
  /\ At(t, "tell")
  /\ unseen' = (unseen /\ task[t].snap # row)
  /\ Return(t)
  /\ UNCHANGED <<hostVars, net, dead, used, row, storeOk, faults>>

----------------------------------------------------------------------------
(***************************************************************************)
(* refresh.                                                                *)
(***************************************************************************)

Answer_any_tag(known) == IF tooOld THEN Refused ELSE Unchanged

\* GET /v1/share with If-None-Match: the version check comes first, then the
\* hash decides between 304 and the share.
Answer(known) ==
  IF tooOld THEN Refused ELSE IF known = config THEN Unchanged ELSE config

get_share(t) ==
  /\ At(t, "asked") /\ InCell(t) = "open"
  /\ task' = [task EXCEPT ![t].step = "answered", ![t].cell = 0,
                          ![t].got = Answer(task[t].got)]
  /\ LetGo(t)
  /\ UNCHANGED <<hostVars, gate, dead, used, stored, faults>>

fetch_failed(t) ==
  /\ At(t, "asked") /\ InCell(t) \in Ended
  /\ Return(t)
  /\ LetGo(t)
  /\ UNCHANGED <<hostVars, dead, used, stored, faults>>

AfterOutdated_info_only(t) ==
  IF task[t].got \in 0 .. MaxVersion THEN "info" ELSE "idle"

\* write_outdated says whether it changed anything, and that decides, with
\* the answer, whether the observer is told.
AfterOutdated(t) ==
  LET changed == row.outdated # (task[t].got = Refused) IN
  IF task[t].got \in 0 .. MaxVersion THEN "info"
  ELSE IF changed THEN "notify" ELSE "idle"

write_outdated(t) ==
  LET next == AfterOutdated(t) IN
  /\ At(t, "answered")
  /\ row' = [row EXCEPT !.outdated = (task[t].got = Refused)]
  /\ unseen' = (unseen \/ row' # row)
  /\ IF next = "idle" THEN Return(t) ELSE Go(t, next) /\ UNCHANGED gate
  /\ UNCHANGED <<hostVars, net, dead, used, storeOk, faults>>

\* write_share_info: name, hash, certificates and apps in one transaction.
write_share_info(t) ==
  /\ At(t, "info")
  /\ row' = [row EXCEPT !.hash = task[t].got]
  /\ unseen' = TRUE
  /\ Go(t, "notify")
  /\ UNCHANGED <<hostVars, net, gate, dead, used, storeOk, faults>>

\* A write of the row, or reading it back, fails: the call ends there.
store_failed(t) ==
  /\ \E step \in {"row", "answered", "info", "notify"} : At(t, step)
  /\ Fault
  /\ storeOk' = FALSE
  /\ Return(t)
  /\ UNCHANGED <<hostVars, net, dead, used, row, unseen>>

----------------------------------------------------------------------------
(***************************************************************************)
(* check_connection, under the gate from its first step to its last.       *)
(***************************************************************************)

\* A connection used within RECENT_USE is redialled, without waiting for the
\* gate the check itself holds.  When the last use was is left open.
Reconnect(t) ==
  \/ Return(t)
  \/ /\ used /\ dead = None
     /\ task' = [task EXCEPT ![t].step = IF slot'[cell'] = None THEN "init" ELSE "open",
                             ![t].cell = cell',
                             ![t].first = slot'[cell'] # None]
     /\ UNCHANGED gate

\* The probed connection is dropped; its close code may be terminal.
ProbeFailed(t, k) ==
  LET state == terminal_from_close(slot[k]) IN
  /\ evict(t, k)
  /\ \/ state # None /\ record_terminal_error(t, state)
     \/ state = None /\ Reconnect(t) /\ UNCHANGED dead

Holds(t) == At(t, "gate") /\ task[t].op = "check" /\ Head(gate) = t

no_connection(t) ==
  /\ Holds(t) /\ slot[cell] = None
  /\ UNCHANGED net
  /\ Reconnect(t)
  /\ UNCHANGED <<hostVars, dead, used, stored, faults>>

\* iroh looks for a close reason before it sends anything.
found_closed(t) ==
  /\ Holds(t) /\ kind = "iroh" /\ slot[cell] \in Ended
  /\ ProbeFailed(t, cell)
  /\ UNCHANGED <<hostVars, used, stored, faults>>

probe(t) ==
  /\ Holds(t) /\ slot[cell] # None
  /\ kind = "iroh" => slot[cell] \notin Ended
  /\ task' = [task EXCEPT ![t].step = "probe", ![t].cell = cell]
  /\ UNCHANGED <<hostVars, net, gate, dead, used, stored, faults>>

probe_answered(t) ==
  /\ At(t, "probe") /\ InCell(t) \in Up
  /\ Return(t)
  /\ LetGo(t)
  /\ UNCHANGED <<hostVars, dead, used, stored, faults>>

probe_failed(t) ==
  /\ At(t, "probe") /\ InCell(t) \in Ended
  /\ ProbeFailed(t, task[t].cell)
  /\ UNCHANGED <<hostVars, used, stored, faults>>

\* PROBE_DEADLINE passes: on a stalled connection, or a live one too slow.
probe_timed_out(t) ==
  /\ At(t, "probe")
  /\ \/ InCell(t) = "stalled" /\ UNCHANGED faults
     \/ InCell(t) \in Up /\ Fault
  /\ ProbeFailed(t, task[t].cell)
  /\ UNCHANGED <<hostVars, used, stored>>

\* close_connections: the slot is emptied whatever it holds.
drop_connection ==
  /\ Fault
  /\ Replace(Tasks)
  /\ UNCHANGED <<hostVars, gate, dead, used, stored, task>>

----------------------------------------------------------------------------
(***************************************************************************)
(* The host node and the network.                                          *)
(***************************************************************************)

\* Handle::reload: the config is replaced only if its hash differs, so every
\* step here is a new version.
reload ==
  /\ config < MaxVersion
  /\ config' = config + 1
  /\ UNCHANGED <<kind, host, tooOld, net, gate, dead, used, stored, faults, task>>

\* A host node with another MIN_CLIENT_VERSION takes over, or gives way.
upgrade ==
  /\ Fault
  /\ tooOld' = ~tooOld
  /\ UNCHANGED <<kind, host, config, net, gate, dead, used, stored, task>>

\* The operator revokes the guest, or its row goes some other way.
turn_away ==
  /\ host = "guest"
  /\ host' \in {"revoked", "unknown"}
  /\ UNCHANGED <<kind, config, tooOld, net, gate, dead, used, stored, faults, task>>

host_closes(k) ==
  /\ host # "guest"
  /\ slot[k] \in Up
  /\ slot' = [slot EXCEPT ![k] = host]
  /\ UNCHANGED <<hostVars, cell, gate, dead, used, stored, faults, task>>

\* The path fails unnoticed, or either end closes in an orderly way.
connection_lost(k) ==
  /\ slot[k] \in Up
  /\ Fault
  /\ \E s \in {"stalled", "closing"} : slot' = [slot EXCEPT ![k] = s]
  /\ UNCHANGED <<hostVars, cell, gate, dead, used, stored, task>>

\* QUIC's idle timeout ends a stalled connection.
idle_timeout(k) ==
  /\ slot[k] = "stalled"
  /\ slot' = [slot EXCEPT ![k] = "closing"]
  /\ UNCHANGED <<hostVars, cell, gate, dead, used, stored, faults, task>>

TaskStep(t) ==
  \/ open_stream(t) \/ cell_filled(t) \/ dial(t) \/ dialled(t) \/ hub_refuses(t)
  \/ stream_opened(t) \/ stream_closed(t) \/ open_failed(t)
  \/ record_row(t) \/ read_share(t) \/ on_share_changed(t)
  \/ get_share(t) \/ fetch_failed(t) \/ write_outdated(t) \/ write_share_info(t)
  \/ no_connection(t) \/ found_closed(t) \/ probe(t) \/ probe_answered(t)
  \/ probe_failed(t) \/ probe_timed_out(t)

GuestNext ==
  \/ \E t \in Tasks : TaskStep(t) \/ dial_failed(t) \/ store_failed(t)
  \/ \E t \in Tasks, op \in {"stream", "refresh", "check"} : call(t, op)
  \/ drop_connection \/ reload \/ upgrade \/ turn_away
  \/ \E k \in Cells : host_closes(k) \/ connection_lost(k) \/ idle_timeout(k)

GuestSpec == GuestInit /\ [][GuestNext]_vars

\* Every call's own steps are driven by the runtime, QUIC ends what stays
\* silent and the host node closes those it turned away.  A refresh is asked
\* for again and again: by the app when it comes to the front, and by every
\* request for an app the host node no longer has.
GuestFairness ==
  /\ \A t \in Tasks : WF_vars(TaskStep(t)) /\ SF_vars(call(t, "refresh"))
  /\ WF_vars(\E k \in Cells : idle_timeout(k) \/ host_closes(k))

GuestLiveSpec == GuestSpec /\ GuestFairness

----------------------------------------------------------------------------
(***************************************************************************)
(* Properties.                                                             *)
(***************************************************************************)

\* Several tasks fail on one connection while another has already replaced
\* it: a connection that works leaves the cache only when the app asks for
\* it, or by the check that probed that very connection in vain.
LiveConnectionKept ==
  [][slot[cell] = "open" /\ (cell' # cell \/ slot'[cell] = None) =>
       \/ UNCHANGED task
       \/ \E t \in Tasks : At(t, "probe") /\ task[t].cell = cell /\ task'[t].step # "probe"]_vars

\* A share ends for good only by what the host node, or the hub, said of this
\* device, however the connection that carried it ended and whoever noticed.
TerminalIsTold ==
  /\ dead # None => host = (IF dead = "revoked" THEN "revoked" ELSE "unknown")
  /\ row.terminal \in {None, dead}

\* An observer hears of every change of the stored share: unless it was handed
\* the row as it is, some call is on the way to read it, or has read it and
\* not yet told, whatever older rows other calls still hand over meanwhile.
\* The store itself may fail in between.
ChangesSeen ==
  storeOk /\ unseen =>
    \E t \in Tasks : \/ task[t].step \in {"info", "notify"}
                     \/ At(t, "tell") /\ task[t].snap = row

\* The guest node's own state is well formed and its observers are up to date
\* (GuestTypeOK, ChangesSeen).
GuestInv == GuestTypeOK /\ ChangesSeen

\* No call hangs: not behind the gate a check holds while it redials, not
\* behind a dial another call made, not on a connection gone silent.
CallsReturn == \A t \in Tasks : ~At(t, "idle") ~> At(t, "idle")

\* Answers of overlapping refreshes may be stored in any order, yet once the
\* host node's config stays the same the stored copy ends up equal to it, and
\* the mark of being too old agrees with the host node.
RefreshCatchesUp ==
  <>[](dead = None => row.outdated = tooOld /\ (tooOld \/ row.hash = config))

=============================================================================
