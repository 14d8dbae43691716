----------------------------- MODULE HostShare -----------------------------
(***************************************************************************)
(* One share on the host machine and the `waserver` commands that work on  *)
(* it: init and deinit with the rollback of failed inits                   *)
(* (initialization.rs), serve and start (serving.rs, ipc.rs, daemon.rs),   *)
(* stop, reload and edit (main.rs, editing.rs).                            *)
(*                                                                         *)
(* Every command is a process of its own.  What they share is the share's  *)
(* directory, the hub's connectivity groups and the path of the daemon's   *)
(* socket, none of which is locked; each system call or hub request is a   *)
(* step.                                                                   *)
(***************************************************************************)
EXTENDS Naturals, Sequences, FiniteSets, FiniteSetsExt, SequencesExt

CONSTANTS Procs,       \* waserver processes that run at once
          Transports,  \* of {"iroh", "wispers-connect"}
          MaxVersion,  \* bound: contents of share.toml that parse, 0 the template
          GroupQuota,  \* the hub's groups_per_domain
          EventCap,    \* capacity of the events channel (16 in the code)
          MaxFaults    \* bound: failed writes, lost answers, killed commands

ASSUME TransportsAssumption == Transports \subseteq {"iroh", "wispers-connect"}
ASSUME HostShareBounds ==
  /\ MaxVersion \in Nat /\ GroupQuota \in Nat \ {0} /\ EventCap \in Nat \ {0}
  /\ MaxFaults \in Nat /\ IsFiniteSet(Procs)
ASSUME NamesAssumption == Procs \cap {"none", "stale"} = {}

VARIABLES disk,    \* the share's directory
          file,    \* what share.toml holds, 0 if it is not there
          groups,  \* external: the hub's connectivity groups of this domain
          sock,    \* the socket's path: nothing, a file nobody listens on, a listener
          ipc,     \* each daemon's IPC server
          proc,    \* the commands
          sub,     \* a guest that holds an events stream open
          deaf,    \* history: daemons that went on after answering a stop
          lost,    \* history: daemons whose socket another start, which had looked
                   \* before there was one, took for stale and removed
          mess,    \* history: something happened that may leave a group behind
          faults   \* how many faults there were

local == <<disk, file>>
vars == <<local, groups, sock, ipc, proc, sub, deaf, lost, mess, faults>>

None == "none"
Stale == "stale"
WC == "wispers-connect"
Broken == MaxVersion + 1
Files == 0 .. Broken
Groups == 1 .. GroupQuota

Absent == [there |-> FALSE, toml |-> FALSE, db |-> FALSE, kind |-> None,
           keys |-> FALSE, group |-> 0, registered |-> FALSE]
Idle == [cmd |-> "none", step |-> "idle", kind |-> None, group |-> 0,
         undo |-> <<>>, cfg |-> 0, before |-> {}]
Down == [up |-> FALSE, queue |-> <<>>, step |-> "idle", fresh |-> 0]
NoGuest == [on |-> None, events |-> 0, seen |-> 0]

\* ShareDir::create, statement by statement, and what comes after it.
CreateSteps == [free |-> "dir", dir |-> "toml", toml |-> "db", db |-> "kind", kind |-> "keys"]

\* The steps of each command.
StepsOf ==
  [none |-> {"idle"},
   init |-> {"exists", "group", "keys", "register", "undo"} \cup DOMAIN CreateSteps,
   deinit |-> {"open", "probe", "hub", "delete"},
   serve |-> {"load", "open", "bind", "ipc", "remove", "listen", "connect", "run"},
   stop |-> {"ask", "connected", "sent"},
   reload |-> {"ask", "connected", "sent"},
   edit |-> {"exists", "editor", "check", "ask", "connected", "sent"}]

Disk == [there : BOOLEAN, toml : BOOLEAN, db : BOOLEAN, kind : Transports \cup {None, WC},
         keys : BOOLEAN, group : Groups \cup {0}, registered : BOOLEAN]
Steps == UNION {StepsOf[c] : c \in DOMAIN StepsOf}
Command == [cmd : DOMAIN StepsOf, step : Steps, kind : Transports \cup {None, WC},
            group : Groups \cup {0}, undo : Seq({"group", "dir"}), cfg : 0 .. MaxVersion,
            before : SUBSET Procs]
IpcServer == [up : BOOLEAN, queue : Seq(Procs), step : {"idle", "swap", "send"},
              fresh : 0 .. MaxVersion]

HostShareTypeOK ==
  /\ disk \in Disk
  /\ file \in Files
  /\ groups \subseteq Groups
  /\ sock \in Procs \cup {None, Stale}
  /\ ipc \in [Procs -> IpcServer]
  /\ proc \in [Procs -> Command]
  /\ \A p \in Procs : proc[p].step \in StepsOf[proc[p].cmd]
  /\ sub \in [on : Procs \cup {None}, events : 0 .. EventCap, seen : 0 .. MaxVersion]
  /\ deaf \subseteq Procs /\ lost \subseteq Procs
  /\ mess \in BOOLEAN
  /\ faults \in 0 .. MaxFaults

HostShareInit ==
  /\ disk = Absent /\ file = 0 /\ groups = {} /\ sock = None
  /\ ipc = [p \in Procs |-> Down]
  /\ proc = [p \in Procs |-> Idle]
  /\ sub = NoGuest /\ deaf = {} /\ lost = {} /\ mess = FALSE /\ faults = 0

-----------------------------------------------------------------------------
(* Processes *)

At(p, cmd, step) == proc[p].cmd = cmd /\ proc[p].step = step
Go(p, step) == proc' = [proc EXCEPT ![p].step = step]
End(p) == proc' = [proc EXCEPT ![p] = Idle]
Running == {p \in Procs : proc[p].cmd = "serve" /\ proc[p].step \in {"connect", "run"}}
Fault == faults < MaxFaults /\ faults' = faults + 1
Mess == mess' = TRUE

\* ShareDir::load_config and open_state.  A database that names no transport
\* is taken for one of version 0.4, whose default was Wispers Connect.
load_config == disk.toml /\ file # Broken
open_state == disk.toml /\ disk.db /\ (disk.kind # None \/ file # Broken)
record_legacy_transport == [disk EXCEPT !.kind = IF @ = None THEN WC ELSE @]

\* Whether Client::connect succeeds: the path leads to a process that listens.
connect == sock \in Procs

command(p, cmd, step, kind) ==
  /\ proc[p].step = "idle"
  /\ proc' = [proc EXCEPT ![p] = [Idle EXCEPT !.cmd = cmd, !.step = step, !.kind = kind,
                                              !.before = IF cmd \in {"serve", "deinit"} THEN {sock} \cap Procs ELSE {}]]
  /\ mess' = (mess \/ /\ cmd \in {"init", "deinit"}
                       /\ \E q \in Procs : proc[q].cmd \in {"init", "deinit"})
  /\ UNCHANGED <<local, groups, sock, ipc, sub, deaf, lost, faults>>

\* A process that ends drops its listener: the path stays, nobody listens,
\* and whoever waits for an answer reads the end of the stream.
Gone(d) == [p \in Procs |-> IF p = d \/ \E i \in DOMAIN ipc[d].queue : ipc[d].queue[i] = p
                            THEN Idle
                            ELSE [proc[p] EXCEPT !.before = @ \ {d}]]
Hangup(d) == /\ sock' = IF sock = d THEN Stale ELSE sock
             /\ ipc' = [ipc EXCEPT ![d] = Down]

daemon_ends(d) ==
  /\ proc' = Gone(d) /\ Hangup(d)
  /\ sub' = IF sub.on = d THEN NoGuest ELSE sub
  /\ deaf' = deaf \ {d} /\ lost' = lost \ {d}
  /\ UNCHANGED <<local, groups, mess, faults>>

-----------------------------------------------------------------------------
(* waserver init *)

others == <<sock, ipc, sub, deaf, lost>>

up_exists(p) ==
  /\ At(p, "init", "exists")
  /\ IF disk.toml THEN End(p) ELSE Go(p, IF proc[p].kind = WC THEN "group" ELSE "free")
  /\ UNCHANGED <<local, groups, others, mess, faults>>

\* A group id is one the hub never gave out to a share that is still there.
NewGroup == Min(Groups \ groups)

add_connectivity_group_unpushed(p) ==
  /\ At(p, "init", "group")
  /\ groups # Groups
  /\ groups' = groups \cup {NewGroup}
  /\ proc' = [proc EXCEPT ![p].step = "free", ![p].group = NewGroup]
  /\ UNCHANGED <<local, others, mess, faults>>

add_connectivity_group(p) ==
  /\ At(p, "init", "group")
  /\ groups # Groups
  /\ groups' = groups \cup {NewGroup}
  /\ proc' = [proc EXCEPT ![p].step = "free", ![p].group = NewGroup, ![p].undo = <<"group">>]
  /\ UNCHANGED <<local, others, mess, faults>>

explain_group_quota(p) ==
  /\ At(p, "init", "group")
  /\ groups = Groups
  /\ End(p)
  /\ UNCHANGED <<local, groups, others, mess, faults>>

\* The group exists and nobody on this side knows its id.
group_answer_lost(p) ==
  /\ At(p, "init", "group")
  /\ groups # Groups
  /\ Fault /\ Mess
  /\ groups' = groups \cup {NewGroup}
  /\ End(p)
  /\ UNCHANGED <<local, others>>

Created(step, kind) ==
  CASE step = "free" -> disk
    [] step = "dir"  -> [disk EXCEPT !.there = TRUE]
    [] step = "toml" -> [disk EXCEPT !.toml = TRUE]
    [] step = "db"   -> [disk EXCEPT !.db = TRUE]
    [] step = "kind" -> [disk EXCEPT !.kind = kind]

\* What stops a statement of ShareDir::create without any fault.
Obstructed(step) == \/ step = "free" /\ disk.there
                    \/ step \in {"toml", "db"} /\ ~disk.there

create(p) ==
  LET step == proc[p].step IN
  /\ proc[p].cmd = "init" /\ step \in DOMAIN CreateSteps /\ ~Obstructed(step)
  /\ disk' = Created(step, proc[p].kind)
  /\ file' = IF step = "toml" THEN 0 ELSE file
  /\ proc' = [proc EXCEPT ![p].step = CreateSteps[step],
                          ![p].undo = IF step = "kind" THEN Append(@, "dir") ELSE @]
  /\ UNCHANGED <<groups, others, mess, faults>>

create_refused(p) ==
  /\ proc[p].cmd = "init" /\ proc[p].step \in DOMAIN CreateSteps /\ Obstructed(proc[p].step)
  /\ Go(p, "undo")
  /\ UNCHANGED <<local, groups, others, mess, faults>>

\* The step that removes the directory is pushed after create has returned.
create_failed(p) ==
  /\ proc[p].cmd = "init" /\ proc[p].step \in DOMAIN CreateSteps \ {"free"}
  /\ Fault
  /\ Go(p, "undo")
  /\ UNCHANGED <<local, groups, others, mess>>

set_keys(p) ==
  /\ At(p, "init", "keys")
  /\ disk' = [disk EXCEPT !.keys = TRUE, !.group = proc[p].group]
  /\ IF proc[p].kind = WC THEN Go(p, "register") ELSE End(p)
  /\ UNCHANGED <<file, groups, others, mess, faults>>

register(p) ==
  /\ At(p, "init", "register")
  /\ disk' = [disk EXCEPT !.registered = TRUE]
  /\ End(p)
  /\ UNCHANGED <<file, groups, others, mess, faults>>

init_failed(p) ==
  /\ proc[p].cmd = "init" /\ proc[p].step \in {"keys", "register"}
  /\ Fault
  /\ Go(p, "undo")
  /\ UNCHANGED <<local, groups, others, mess>>

\* Rollback::run: the last step pushed is undone first.
Popped(p) == proc' = [proc EXCEPT ![p].undo = Front(@)]

undo(p) ==
  /\ At(p, "init", "undo") /\ proc[p].undo # <<>>
  /\ disk' = IF Last(proc[p].undo) = "dir" THEN Absent ELSE disk
  /\ file' = IF Last(proc[p].undo) = "dir" THEN 0 ELSE file
  /\ groups' = IF Last(proc[p].undo) = "group" THEN groups \ {proc[p].group} ELSE groups
  /\ Popped(p)
  /\ UNCHANGED <<others, mess, faults>>

undo_failed(p) ==
  /\ At(p, "init", "undo") /\ proc[p].undo # <<>>
  /\ Fault /\ Mess
  /\ Popped(p)
  /\ UNCHANGED <<local, groups, others>>

undone(p) ==
  /\ At(p, "init", "undo") /\ proc[p].undo = <<>>
  /\ End(p)
  /\ UNCHANGED <<local, groups, others, mess, faults>>

-----------------------------------------------------------------------------
(* waserver deinit *)

down_open(p) ==
  /\ At(p, "deinit", "open")
  /\ disk' = IF open_state THEN record_legacy_transport ELSE disk
  /\ IF open_state THEN Go(p, "probe") ELSE End(p)
  /\ UNCHANGED <<file, groups, others, mess, faults>>

\* A share without Wispers Connect credentials has no group to remove.
down_probe(p) ==
  /\ At(p, "deinit", "probe")
  /\ IF connect THEN End(p)
     ELSE proc' = [proc EXCEPT ![p].step = IF disk.kind = WC /\ disk.keys THEN "hub" ELSE "delete",
                               ![p].group = disk.group]
  /\ UNCHANGED <<local, groups, others, mess, faults>>

\* The hub answers 404 for a group it does not have, which is an error here.
remove_connectivity_group(p) ==
  /\ At(p, "deinit", "hub")
  /\ groups' = groups \ {proc[p].group}
  /\ IF proc[p].group \in groups THEN Go(p, "delete") ELSE End(p)
  /\ UNCHANGED <<local, others, mess, faults>>

remove_group_failed(p) ==
  /\ At(p, "deinit", "hub")
  /\ Fault /\ Mess
  /\ groups' \in {groups, groups \ {proc[p].group}}
  /\ End(p)
  /\ UNCHANGED <<local, others>>

delete(p) ==
  /\ At(p, "deinit", "delete")
  /\ disk' = Absent /\ file' = 0
  /\ End(p)
  /\ UNCHANGED <<groups, others, mess, faults>>

\* remove_dir_all goes through the directory file by file.
delete_failed(p) ==
  /\ At(p, "deinit", "delete")
  /\ Fault
  /\ \E keep \in SUBSET {"toml", "db"} :
       disk' = [(IF "db" \in keep THEN disk ELSE [Absent EXCEPT !.there = disk.there])
                  EXCEPT !.toml = disk.toml /\ "toml" \in keep]
  /\ file' = IF disk'.toml THEN file ELSE 0
  /\ End(p)
  /\ UNCHANGED <<groups, others, mess>>

\* Ctrl-C ends init and deinit where they are: nothing is rolled back.
killed(p) ==
  /\ proc[p].cmd \in {"init", "deinit"}
  /\ Fault /\ Mess
  /\ End(p)
  /\ UNCHANGED <<local, groups, others>>

-----------------------------------------------------------------------------
(* waserver serve and start *)

serve_load(p) ==
  /\ At(p, "serve", "load")
  /\ IF load_config THEN proc' = [proc EXCEPT ![p].step = "open", ![p].cfg = file] ELSE End(p)
  /\ UNCHANGED <<local, groups, others, mess, faults>>

serve_open(p) ==
  /\ At(p, "serve", "open")
  /\ disk' = IF open_state THEN record_legacy_transport ELSE disk
  /\ IF open_state
       THEN proc' = [proc EXCEPT ![p].step = "bind", ![p].kind = record_legacy_transport.kind]
       ELSE End(p)
  /\ UNCHANGED <<file, groups, others, mess, faults>>

bind(p) ==
  /\ At(p, "serve", "bind")
  /\ IF disk.keys /\ (proc[p].kind = WC => disk.registered) THEN Go(p, "ipc") ELSE End(p)
  /\ UNCHANGED <<local, groups, others, mess, faults>>

ipc_check_ignored(p) ==
  /\ At(p, "serve", "ipc")
  /\ Go(p, IF sock = None THEN "listen" ELSE "remove")
  /\ UNCHANGED <<local, groups, others, mess, faults>>

\* ipc::Server::bind: look, remove a stale socket, bind.
ipc_check(p) ==
  /\ At(p, "serve", "ipc")
  /\ IF connect THEN End(p) ELSE Go(p, IF sock = None THEN "listen" ELSE "remove")
  /\ UNCHANGED <<local, groups, others, mess, faults>>

ipc_remove(p) ==
  /\ At(p, "serve", "remove")
  /\ IF sock = None THEN End(p) ELSE Go(p, "listen")
  /\ sock' = None
  /\ lost' = lost \cup (({sock} \cap Procs) \ proc[p].before)
  /\ UNCHANGED <<local, groups, ipc, sub, deaf, mess, faults>>

\* The IPC interface is up before the transport is: run connects to the hub
\* first, where there is one.
ipc_listen(p) ==
  /\ At(p, "serve", "listen")
  /\ IF sock = None
       THEN /\ Go(p, IF proc[p].kind = WC THEN "connect" ELSE "run")
            /\ sock' = p /\ ipc' = [ipc EXCEPT ![p] = [Down EXCEPT !.up = TRUE]]
       ELSE End(p) /\ UNCHANGED <<sock, ipc>>
  /\ UNCHANGED <<local, groups, sub, deaf, lost, mess, faults>>

start_serving(p) ==
  /\ At(p, "serve", "connect")
  /\ Go(p, "run")
  /\ UNCHANGED <<local, groups, others, mess, faults>>

\* SIGTERM, a crash, a hub session that ends or never came about.
serving_ends(p) == p \in Running /\ daemon_ends(p)

-----------------------------------------------------------------------------
(* share.toml, waserver edit, reload and stop *)

\* An editor that leaves the file as it is, with another config or with none.
edit_by_hand ==
  /\ disk.toml
  /\ file' \in Files
  /\ UNCHANGED <<disk, groups, others, proc, mess, faults>>

edit_exists(p) ==
  /\ At(p, "edit", "exists")
  /\ IF disk.toml THEN Go(p, "editor") ELSE End(p)
  /\ UNCHANGED <<local, groups, others, mess, faults>>

open_in_editor(p) ==
  /\ At(p, "edit", "editor")
  /\ file' \in IF disk.toml THEN Files ELSE {file}
  /\ Go(p, "check")
  /\ UNCHANGED <<disk, groups, others, mess, faults>>

\* asks_yes: edit again, or leave the file as written.
edit_check(p) ==
  /\ At(p, "edit", "check")
  /\ IF load_config THEN Go(p, "ask") ELSE Go(p, "editor") \/ End(p)
  /\ UNCHANGED <<local, groups, others, mess, faults>>

\* Client::connect, then Client::request: a daemon answers its clients one at
\* a time, in the order they connected.
ask(p) ==
  /\ proc[p].step = "ask"
  /\ IF connect
       THEN /\ Go(p, "connected")
            /\ ipc' = [ipc EXCEPT ![sock].queue = Append(@, p)]
       ELSE End(p) /\ UNCHANGED ipc
  /\ UNCHANGED <<local, groups, sock, sub, deaf, lost, mess, faults>>

request(p) ==
  /\ proc[p].step = "connected"
  /\ Go(p, "sent")
  /\ UNCHANGED <<local, groups, others, mess, faults>>

parse_request(d, cmds) ==
  /\ ipc[d].queue # <<>> /\ ipc[d].step = "idle"
  /\ proc[Head(ipc[d].queue)].step = "sent"
  /\ proc[Head(ipc[d].queue)].cmd \in cmds

send_response(d, step) ==
  /\ ipc' = [ipc EXCEPT ![d].queue = Tail(@), ![d].step = step, ![d].fresh = 0]
  /\ End(Head(ipc[d].queue))

\* Before the hub session exists stop_hub_session has nothing to stop and
\* answers all the same: the IPC loop ends, run goes on.
handle_shutdown(d) ==
  /\ parse_request(d, {"stop"})
  /\ IF At(d, "serve", "connect")
       THEN /\ Hangup(d)
            /\ proc' = [Gone(d) EXCEPT ![d] = proc[d]]
            /\ deaf' = deaf \cup {d}
            /\ UNCHANGED <<local, groups, sub, lost, mess, faults>>
       ELSE daemon_ends(d)

handle_reload(d) ==
  /\ parse_request(d, {"reload", "edit"})
  /\ IF load_config
       THEN /\ ipc' = [ipc EXCEPT ![d].step = "swap", ![d].fresh = file]
            /\ UNCHANGED proc
       ELSE send_response(d, "idle")
  /\ UNCHANGED <<local, groups, sock, sub, deaf, lost, mess, faults>>

reload_unchanged(d) ==
  /\ ipc[d].step = "swap" /\ ipc[d].fresh = proc[d].cfg
  /\ send_response(d, "idle")
  /\ UNCHANGED <<local, groups, sock, sub, deaf, lost, mess, faults>>

reload_swap_silent(d) ==
  /\ ipc[d].step = "swap" /\ ipc[d].fresh # proc[d].cfg
  /\ proc' = [proc EXCEPT ![d].cfg = ipc[d].fresh, ![Head(ipc[d].queue)] = Idle]
  /\ ipc' = [ipc EXCEPT ![d].step = "idle", ![d].queue = Tail(@)]
  /\ UNCHANGED <<local, groups, sock, sub, deaf, lost, mess, faults>>

reload_swap(d) ==
  /\ ipc[d].step = "swap" /\ ipc[d].fresh # proc[d].cfg
  /\ proc' = [proc EXCEPT ![d].cfg = ipc[d].fresh]
  /\ ipc' = [ipc EXCEPT ![d].step = "send"]
  /\ UNCHANGED <<local, groups, sock, sub, deaf, lost, mess, faults>>

\* A subscriber that lags behind loses the oldest events.
EventSent(d) == IF sub.on = d THEN [sub EXCEPT !.events = Min({@ + 1, EventCap})] ELSE sub

reload_send(d) ==
  /\ ipc[d].step = "send"
  /\ sub' = EventSent(d)
  /\ send_response(d, "idle")
  /\ UNCHANGED <<local, groups, sock, deaf, lost, mess, faults>>
\* GET /v1/events, after which the guest fetches the share, and does so again
\* for every event.
get_events(d) ==
  /\ d \in Running /\ proc[d].step = "run" /\ sub.on = None
  /\ sub' = [on |-> d, events |-> 1, seen |-> 0]
  /\ UNCHANGED <<local, groups, sock, ipc, proc, deaf, lost, mess, faults>>

sse_event ==
  /\ sub.events > 0
  /\ sub' = [sub EXCEPT !.events = @ - 1, !.seen = proc[sub.on].cfg]
  /\ UNCHANGED <<local, groups, sock, ipc, proc, deaf, lost, mess, faults>>

-----------------------------------------------------------------------------
Commands(p) ==
  \/ \E kind \in Transports : command(p, "init", "exists", kind)
  \/ command(p, "deinit", "open", None)
  \/ command(p, "serve", "load", None)
  \/ command(p, "stop", "ask", None)
  \/ command(p, "reload", "ask", None)
  \/ command(p, "edit", "exists", None)

\* What a process that runs does next by itself.
Works(p) ==
  \/ up_exists(p) \/ add_connectivity_group(p) \/ explain_group_quota(p) \/ create(p)
  \/ create_refused(p) \/ set_keys(p) \/ register(p) \/ undo(p) \/ undone(p)
  \/ down_open(p) \/ down_probe(p) \/ remove_connectivity_group(p) \/ delete(p)
  \/ serve_load(p) \/ serve_open(p) \/ bind(p) \/ ipc_check(p) \/ ipc_remove(p)
  \/ ipc_listen(p) \/ start_serving(p)
  \/ edit_exists(p) \/ open_in_editor(p) \/ edit_check(p) \/ ask(p) \/ request(p)

\* The IPC task of a daemon.
Answers(d) == handle_shutdown(d) \/ handle_reload(d) \/ reload_unchanged(d)
                \/ reload_swap(d) \/ reload_send(d)

Faults(p) ==
  \/ group_answer_lost(p) \/ create_failed(p) \/ init_failed(p) \/ undo_failed(p)
  \/ remove_group_failed(p) \/ delete_failed(p) \/ killed(p)

HostShareNext ==
  \/ \E p \in Procs : \/ Commands(p) \/ Works(p) \/ Answers(p) \/ Faults(p)
                      \/ serving_ends(p) \/ get_events(p)
  \/ edit_by_hand
  \/ sse_event

HostShareSpec == HostShareInit /\ [][HostShareNext]_vars

\* The operating system runs every process and tokio every task; nobody has
\* to start a command, end a daemon or go on editing.
HostShareLiveSpec ==
  HostShareSpec /\ \A p \in Procs : WF_vars(Works(p)) /\ WF_vars(Answers(p))

-----------------------------------------------------------------------------
(* Properties *)

\* Daemons that serve and cannot be reached.
Unheard == deaf \cup lost

\* A daemon never comes up next to one that was listening when its command
\* began: ipc::Server::bind connects before it takes a socket for stale.  Two
\* processes serve one share only if their starts overlapped, or if the first
\* went deaf on a stop or lost its socket to a start that overlapped its own.
OneServer ==
  \A p, q \in Running : p # q /\ p \in proc[q].before => p \in Unheard

\* deinit takes the group and the directory from under no daemon that was
\* listening when it began (initialization.rs, down), except one that went
\* deaf on a stop or lost its socket.
DeinitSpares ==
  \A p \in Procs :
    proc[p].cmd = "deinit" /\ proc[p].step \in {"hub", "delete"}
      => proc[p].before \cap Running \subseteq Unheard

\* A command that finds a daemon listening leaves it alone: it neither becomes a
\* second one nor takes the share away (OneServer, DeinitSpares).
HostShareInv == HostShareTypeOK /\ OneServer /\ DeinitSpares

\* A guest that fetches the share when its events stream opens and at every
\* event has the config that is served once it has caught up: reload sends the
\* event after the swap, and a full channel drops events, never the last one.
GuestsHearReloads ==
  sub.on # None /\ sub.events = 0 /\ ipc[sub.on].step # "send" => sub.seen = proc[sub.on].cfg

InProgress(p) == proc[p].cmd = "init" /\ proc[p].step # "idle"

\* A connectivity group of the hub, which counts against the plan's quota, is
\* the one a share on disk names or one an init in progress will undo, unless
\* an answer of the hub or an undo step failed or a command was killed; two
\* inits or deinits at once are left out.
GroupsAccounted ==
  ~mess =>
    \A g \in groups : \/ disk.kind = WC /\ disk.keys /\ disk.group = g
                      \/ \E p \in Procs : InProgress(p) /\ proc[p].group = g

\* main.rs, the help of stop: "Stop a share's server".  A daemon that
\* answered a stop with success ends.
StopStops == \A d \in Procs : d \in deaf ~> d \notin Running
=============================================================================
