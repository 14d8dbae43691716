---------------------------- MODULE ClientShares ----------------------------
(***************************************************************************)
(* The shares of one device: Client of the SDK (sdk/src/lib.rs), its rows  *)
(* (storage.rs), its keys (secrets.rs) and what joining and leaving over   *)
(* iroh do (sdk/src/iroh_transport.rs).                                    *)
(*                                                                         *)
(* Calls of the app run as concurrent tasks.  Every method of storage::Row *)
(* takes the database lock for itself, so a call is a chain of steps that  *)
(* interleave with other calls and that a crash may cut.  The database and *)
(* the secret store survive a crash; the map of guest nodes does not.      *)
(*                                                                         *)
(* Each join mints a share id and a key of its own, so a share here is one *)
(* join: the id names the row, the key in the secret store and the key the *)
(* host node binds.  Of the host node there is only which keys it has      *)
(* bound; what it does with them is IrohHost.                              *)
(***************************************************************************)
EXTENDS Naturals, FiniteSets

CONSTANTS Shares,    \* share ids, one per join
          Tasks,     \* calls the app may have in progress at once
          Names,     \* labels that share names slugify to
          MaxSuffix, \* how many labels of one name fit a DNS label
          Ops        \* bound: the calls the app makes

ASSUME SuffixAssumption == MaxSuffix \in Nat
ASSUME OpsAssumption == Ops \subseteq {"join", "restore", "leave"}
ASSUME TasksAssumption == IsFiniteSet(Tasks)

VARIABLES client,    \* "up" or "down"
          row,       \* table shares
          keys,      \* shares whose key is in the secret store
          bound,     \* external: shares whose key the host node has bound
          task,      \* what each call is doing
          cellOf,    \* guest_nodes: each share's current cell, 0 for none
          filled,    \* cells whose OnceCell is set: <<share, cell>>
          nodes,     \* cells whose guest node has its endpoint open
          failed,    \* history: joins that returned an error
          left,      \* history: shares a leave was begun for
          untold,    \* history: leaves that could not tell the host node
          kept       \* history: leaves whose key the secret store kept

store == <<row, keys>>
cells == <<cellOf, filled, nodes>>
history == <<failed, left, untold, kept>>
vars == <<client, row, keys, bound, task, cells, history>>

NoLabel == <<>>
\* A label is a name and its suffix, or a share id by itself; each fits DNS.
Labels == (Names \X (1 .. MaxSuffix)) \cup (Shares \X {0})

\* The columns that matter; `complete` is NULL until mark_complete.
Row == [exists : BOOLEAN, host : BOOLEAN, info : BOOLEAN,
        label : Labels \cup {NoLabel}, complete : {"NULL", "TRUE"}, dead : BOOLEAN]
NoRow == [exists |-> FALSE, host |-> FALSE, info |-> FALSE, label |-> NoLabel,
          complete |-> "NULL", dead |-> FALSE]

JoinSteps == {"row", "activated", "located", "saved", "info", "labelled", "listed"}
RestoreSteps == {"found", "cell", "binding", "using"}
LeaveSteps == {"found", "close", "tell", "telling", "forget", "delete"}
Idle == [op |-> "none"]
Calls ==
  [op : {"join"}, share : Shares, step : JoinSteps]
  \cup [op : {"restore"}, share : Shares, step : RestoreSteps, cell : Nat]
  \cup [op : {"leave"}, share : Shares, step : LeaveSteps, cell : Nat]

SharesTypeOK ==
  /\ client \in {"up", "down"}
  /\ row \in [Shares -> Row]
  /\ keys \subseteq Shares
  /\ bound \subseteq Shares
  /\ task \in [Tasks -> Calls \cup {Idle}]
  /\ cellOf \in [Shares -> Nat]
  /\ filled \subseteq Shares \X Nat
  /\ nodes \subseteq filled
  /\ failed \subseteq Shares
  /\ left \subseteq Shares
  /\ untold \subseteq Shares
  /\ kept \subseteq Shares

Init ==
  /\ client = "up"
  /\ row = [i \in Shares |-> NoRow]
  /\ keys = {}
  /\ bound = {}
  /\ task = [t \in Tasks |-> Idle]
  /\ cellOf = [i \in Shares |-> 0]
  /\ filled = {}
  /\ nodes = {}
  /\ failed = {}
  /\ left = {}
  /\ untold = {}
  /\ kept = {}

At(t, op, step) == task[t].op = op /\ task[t].step = step
Step(t, step) == task' = [task EXCEPT ![t].step = step]
Return(t) == task' = [task EXCEPT ![t] = Idle]

\* A cell, and the endpoint of the guest node in it, goes with its last owner:
\* the map, or a call that still has it.
CellOf(t) == <<task[t].share, task[t].cell>>
Cells == 1 .. Cardinality(Tasks) + 1
Owned(c, owners) ==
  \/ cellOf[c[1]] = c[2]
  \/ \E u \in owners : task[u].op \in {"restore", "leave"} /\ CellOf(u) = c

ReturnDropping_leaks(t) ==
  /\ Return(t)
  /\ filled' = {c \in filled : Owned(c, Tasks \ {t})}
  /\ UNCHANGED nodes

ReturnDropping(t) ==
  /\ Return(t)
  /\ filled' = {c \in filled : Owned(c, Tasks \ {t})}
  /\ nodes' = {c \in nodes : Owned(c, Tasks \ {t})}

\* find_row, get_all_rows: only complete rows are found.
Listed(i) == row[i].exists /\ row[i].complete = "TRUE"

----------------------------------------------------------------------------
(***************************************************************************)
(* Client::join over iroh.                                                 *)
(***************************************************************************)

\* new_row: the id is minted, none a share has had.
join(t, i) ==
  /\ "join" \in Ops
  /\ client = "up"
  /\ task[t] = Idle
  /\ ~row[i].exists
  /\ i \notin keys \cup bound \cup failed \cup left
  /\ \A u \in Tasks : task[u] # Idle => task[u].share # i
  /\ row' = [row EXCEPT ![i].exists = TRUE]
  /\ task' = [task EXCEPT ![t] = [op |-> "join", share |-> i, step |-> "row"]]
  /\ UNCHANGED <<client, keys, bound, cells, history>>

\* The host node redeems the invite for the fresh key and its answer arrives.
join_activated(t) ==
  /\ At(t, "join", "row")
  /\ bound' = bound \cup {task[t].share}
  /\ Step(t, "activated")
  /\ UNCHANGED <<client, store, cells, history>>

\* write_iroh_endpoint_id
join_located(t) ==
  /\ At(t, "join", "activated")
  /\ row' = [row EXCEPT ![task[t].share].host = TRUE]
  /\ Step(t, "located")
  /\ UNCHANGED <<client, keys, bound, cells, history>>

join_saved(t) ==
  /\ At(t, "join", "located")
  /\ keys' = keys \cup {task[t].share}
  /\ Step(t, "saved")
  /\ UNCHANGED <<client, row, bound, cells, history>>

join_info_completes(t) ==
  /\ At(t, "join", "saved")
  /\ row' = [row EXCEPT ![task[t].share].info = TRUE, ![task[t].share].complete = "TRUE"]
  /\ Step(t, "info")
  /\ UNCHANGED <<client, keys, bound, cells, history>>

\* record_join: write_share_info and write_display_name, which write what only
\* the user interface reads.
join_info(t) ==
  /\ At(t, "join", "saved")
  /\ row' = [row EXCEPT ![task[t].share].info = TRUE]
  /\ Step(t, "info")
  /\ UNCHANGED <<client, keys, bound, cells, history>>

\* write_deduped_hostname: the name's slug, or the slug with the first suffix
\* no row has; the share's own id when there is no slug or no suffix fits.
Candidates(i, name) ==
  {n \in 1 .. MaxSuffix : \A j \in Shares \ {i} :
                            row[j].exists => row[j].label # <<name, n>>}

DedupedHostname(i, name) ==
  IF name = i \/ Candidates(i, name) = {}
  THEN <<i, 0>>
  ELSE <<name, CHOOSE n \in Candidates(i, name) : \A m \in Candidates(i, name) : n <= m>>

join_labelled(t, name) ==
  /\ At(t, "join", "info")
  /\ row' = [row EXCEPT ![task[t].share].label = DedupedHostname(task[t].share, name)]
  /\ Step(t, "labelled")
  /\ UNCHANGED <<client, keys, bound, cells, history>>

\* mark_complete
join_listed(t) ==
  /\ At(t, "join", "labelled")
  /\ row' = [row EXCEPT ![task[t].share].complete = "TRUE"]
  /\ Step(t, "listed")
  /\ UNCHANGED <<client, keys, bound, cells, history>>

\* read_share answers, and the observer is told.
join_returns(t) ==
  /\ At(t, "join", "listed")
  /\ row[task[t].share].exists
  /\ Return(t)
  /\ UNCHANGED <<client, store, bound, cells, history>>

\* Any step may fail: the host node refuses or is out of reach, a write or the
\* secret store fails.  The row is deleted, if that succeeds.
join_fails(t) ==
  /\ task[t].op = "join"
  /\ row' \in {row, [row EXCEPT ![task[t].share] = NoRow]}
  /\ failed' = failed \cup {task[t].share}
  /\ Return(t)
  /\ UNCHANGED <<client, keys, bound, cells, left, untold, kept>>

\* The host node has bound the key, but the answer does not arrive.
join_answer_lost(t) ==
  /\ At(t, "join", "row")
  /\ bound' = bound \cup {task[t].share}
  /\ row' \in {row, [row EXCEPT ![task[t].share] = NoRow]}
  /\ failed' = failed \cup {task[t].share}
  /\ Return(t)
  /\ UNCHANGED <<client, keys, cells, left, untold, kept>>

----------------------------------------------------------------------------
(***************************************************************************)
(* Client::restore_guest_node, the first step of everything that reaches a *)
(* host node, and the use of the guest node it returns.                    *)
(***************************************************************************)

restore(t, i) ==
  /\ "restore" \in Ops
  /\ client = "up"
  /\ task[t] = Idle
  /\ Listed(i)
  /\ task' = [task EXCEPT ![t] = [op |-> "restore", share |-> i, step |-> "found", cell |-> 0]]
  /\ UNCHANGED <<client, store, bound, cells, history>>

\* The row is gone, or says the host node turned this device away.
restore_dead(t) ==
  /\ At(t, "restore", "found")
  /\ ~row[task[t].share].exists \/ row[task[t].share].dead
  /\ Return(t)
  /\ UNCHANGED <<client, store, bound, cells, history>>

\* Cell::default(): a cell nobody has.
NewCell(i) == CHOOSE n \in Cells : ~Owned(<<i, n>>, Tasks)

restore_cell_always_new(t) ==
  /\ At(t, "restore", "found")
  /\ cellOf' = [cellOf EXCEPT ![task[t].share] = NewCell(task[t].share)]
  /\ task' = [task EXCEPT ![t].step = "cell", ![t].cell = NewCell(task[t].share)]
  /\ UNCHANGED <<client, store, bound, filled, nodes, history>>

\* guest_nodes.entry(share).or_default(), under the map's lock.  What the row
\* said was read before: by now it may be gone.
restore_cell(t) ==
  /\ At(t, "restore", "found")
  /\ LET i == task[t].share
         c == IF cellOf[i] = 0 THEN NewCell(i) ELSE cellOf[i]
     IN /\ cellOf' = [cellOf EXCEPT ![i] = c]
        /\ task' = [task EXCEPT ![t].step = "cell", ![t].cell = c]
  /\ UNCHANGED <<client, store, bound, filled, nodes, history>>

restore_cached(t) ==
  /\ At(t, "restore", "cell")
  /\ CellOf(t) \in filled
  /\ Step(t, "using")
  /\ UNCHANGED <<client, store, bound, cells, history>>

\* get_or_try_init: one task at a time initialises a cell.
Initialising(c) == \E u \in Tasks : At(u, "restore", "binding") /\ CellOf(u) = c

\* Iroh::restore: the host's id from the row, the key from the secret store.
CanRestore(i) == row[i].exists /\ row[i].host /\ i \in keys

restore_begins(t) ==
  /\ At(t, "restore", "cell")
  /\ CellOf(t) \notin filled
  /\ ~Initialising(CellOf(t))
  /\ CanRestore(task[t].share)
  /\ Step(t, "binding")
  /\ UNCHANGED <<client, store, bound, cells, history>>

restore_lacks_key(t) ==
  /\ At(t, "restore", "cell")
  /\ CellOf(t) \notin filled
  /\ ~Initialising(CellOf(t))
  /\ ~CanRestore(task[t].share)
  /\ Return(t)
  /\ UNCHANGED <<client, store, bound, cells, history>>

restore_bound(t) ==
  /\ At(t, "restore", "binding")
  /\ filled' = filled \cup {CellOf(t)}
  /\ nodes' = nodes \cup {CellOf(t)}
  /\ Step(t, "using")
  /\ UNCHANGED <<client, store, bound, cellOf, history>>

\* The endpoint cannot be bound; the cell stays empty.
restore_fails(t) ==
  /\ At(t, "restore", "binding")
  /\ Return(t)
  /\ UNCHANGED <<client, store, bound, cells, history>>

\* The call ends.  If the host node turned the guest away, that was recorded in
\* the row, unless it is gone.
restore_used(t) ==
  /\ At(t, "restore", "using")
  /\ LET i == task[t].share
     IN row' \in {row, [row EXCEPT ![i].dead = row[i].exists]}
  /\ ReturnDropping(t)
  /\ UNCHANGED <<client, keys, bound, cellOf, history>>

----------------------------------------------------------------------------
(***************************************************************************)
(* Client::leave over iroh.                                                *)
(***************************************************************************)

leave(t, i) ==
  /\ "leave" \in Ops
  /\ client = "up"
  /\ task[t] = Idle
  /\ Listed(i)
  /\ task' = [task EXCEPT ![t] = [op |-> "leave", share |-> i, step |-> "found", cell |-> 0]]
  /\ left' = left \cup {i}
  /\ UNCHANGED <<client, store, bound, cells, failed, untold, kept>>

\* The cell leaves the map.
leave_taken(t) ==
  /\ At(t, "leave", "found")
  /\ task' = [task EXCEPT ![t].step = "close", ![t].cell = cellOf[task[t].share]]
  /\ cellOf' = [cellOf EXCEPT ![task[t].share] = 0]
  /\ UNCHANGED <<client, store, bound, filled, nodes, history>>

leave_closed_untold(t) ==
  /\ At(t, "leave", "close")
  /\ nodes' = nodes \ {CellOf(t)}
  /\ Step(t, IF CellOf(t) \in nodes THEN "tell" ELSE "forget")
  /\ UNCHANGED <<client, store, bound, cellOf, filled, history>>

\* A guest node that is in the cell by now is closed.
leave_closed(t) ==
  /\ At(t, "leave", "close")
  /\ nodes' = nodes \ {CellOf(t)}
  /\ Step(t, "tell")
  /\ UNCHANGED <<client, store, bound, cellOf, filled, history>>

\* transports::leave: read_transport_kind fails when another leave was faster.
leave_no_row(t) ==
  /\ At(t, "leave", "tell")
  /\ ~row[task[t].share].exists
  /\ ReturnDropping(t)
  /\ UNCHANGED <<client, store, bound, cellOf, history>>

\* An endpoint of its own, with the share's key, to say goodbye.
leave_dials(t) ==
  /\ At(t, "leave", "tell")
  /\ CanRestore(task[t].share)
  /\ Step(t, "telling")
  /\ UNCHANGED <<client, store, bound, cells, history>>

\* The host node knows the key, removes the guest and answers.
leave_told(t) ==
  /\ At(t, "leave", "telling")
  /\ task[t].share \in bound
  /\ bound' = bound \ {task[t].share}
  /\ Step(t, "forget")
  /\ UNCHANGED <<client, store, cells, history>>

leave_not_told_waits(t) ==
  /\ At(t, "leave", "tell")
  /\ row[task[t].share].exists
  /\ untold' = untold \cup {task[t].share}
  /\ Step(t, "forget")
  /\ UNCHANGED <<client, store, bound, cells, failed, left, kept>>

\* No key to dial with, no endpoint, no host node, or LEAVE_TIMEOUT; what the
\* host node did before its answer was lost stays done.
leave_not_told(t) ==
  /\ \/ At(t, "leave", "tell") /\ row[task[t].share].exists /\ bound' = bound
     \/ At(t, "leave", "telling") /\ bound' \in {bound, bound \ {task[t].share}}
  /\ untold' = untold \cup {task[t].share}
  /\ Step(t, "forget")
  /\ UNCHANGED <<client, store, cells, failed, left, kept>>

leave_forgot_nothing(t) ==
  /\ At(t, "leave", "forget")
  /\ Step(t, "delete")
  /\ UNCHANGED <<client, store, bound, cells, history>>

\* The key is deleted if the row still says whose it is and the store obeys.
leave_forgot(t) ==
  /\ At(t, "leave", "forget")
  /\ \/ /\ row[task[t].share].exists
        /\ keys' = keys \ {task[t].share}
        /\ kept' = kept
     \/ /\ keys' = keys
        /\ kept' = kept \cup {task[t].share}
  /\ Step(t, "delete")
  /\ UNCHANGED <<client, row, bound, cells, failed, left, untold>>

\* delete_row, which may fail.
leave_returns(t) ==
  /\ At(t, "leave", "delete")
  /\ row' \in {row, [row EXCEPT ![task[t].share] = NoRow]}
  /\ ReturnDropping(t)
  /\ UNCHANGED <<client, keys, bound, cellOf, history>>

----------------------------------------------------------------------------
(***************************************************************************)
(* The app's process.                                                      *)
(***************************************************************************)

\* Requests on their way: the host node may still answer them.
InFlight == {t \in Tasks : At(t, "join", "row") \/ At(t, "leave", "telling")}
SharesOf(calls, op) == {task[t].share : t \in {u \in calls : task[u].op = op}}

crash ==
  /\ client = "up"
  /\ client' = "down"
  /\ task' = [t \in Tasks |-> Idle]
  /\ cellOf' = [i \in Shares |-> 0]
  /\ filled' = {}
  /\ nodes' = {}
  /\ \E calls \in SUBSET InFlight :
       bound' = (bound \cup SharesOf(calls, "join")) \ SharesOf(calls, "leave")
  /\ UNCHANGED <<store, history>>

\* DB::open: clean_up_incomplete_rows deletes WHERE complete = FALSE, and SQL's
\* NULL is not equal to FALSE.
open ==
  /\ client = "down"
  /\ client' = "up"
  /\ row' = [i \in Shares |-> IF row[i].complete = "FALSE" THEN NoRow ELSE row[i]]
  /\ UNCHANGED <<keys, bound, task, cells, history>>

----------------------------------------------------------------------------
JoinStep(t) ==
  \/ join_located(t)
  \/ join_saved(t)
  \/ join_info(t)
  \/ \E i \in Names \cup {task[t].share} : join_labelled(t, i)
  \/ join_listed(t)
  \/ join_returns(t)

RestoreStep(t) ==
  \/ restore_dead(t)
  \/ restore_cell(t)
  \/ restore_cached(t)
  \/ restore_begins(t)
  \/ restore_lacks_key(t)
  \/ restore_bound(t)
  \/ restore_fails(t)
  \/ restore_used(t)

LeaveStep(t) ==
  \/ leave_taken(t)
  \/ leave_closed(t)
  \/ leave_no_row(t)
  \/ leave_dials(t)
  \/ leave_not_told(t)
  \/ leave_forgot(t)
  \/ leave_returns(t)

Next ==
  \/ \E t \in Tasks :
       \/ \E i \in Shares : join(t, i) \/ restore(t, i) \/ leave(t, i)
       \/ task[t].op = "join" /\ JoinStep(t)
       \/ join_activated(t)
       \/ join_fails(t)
       \/ join_answer_lost(t)
       \/ RestoreStep(t)
       \/ LeaveStep(t)
       \/ leave_told(t)
  \/ crash
  \/ open

Spec == Init /\ [][Next]_vars

\* tokio polls a call that can proceed, and its timers fire; nothing obliges the
\* app, the host node or the network to do anything.
FairSpec == Spec /\ \A t \in Tasks : WF_vars(LeaveStep(t))

----------------------------------------------------------------------------
(***************************************************************************)
(* Properties.                                                             *)
(***************************************************************************)

\* record_join: a share the app gets to see is one the host node bound, with
\* its host, its apps, its label and, until a leave begins, its key, whatever
\* step of which call failed or was cut off by a crash.
ListedIsWhole ==
  \A i \in Shares : Listed(i) =>
    /\ row[i].host /\ row[i].info /\ row[i].label # NoLabel
    /\ i \in keys \cup left
    /\ i \in bound \cup left

\* delete_row and secrets.delete: a key whose row is gone, which nothing can
\* delete any more, is that of a failed join or of a leave that could not
\* delete it.
KeysAccounted ==
  \A i \in keys : row[i].exists \/ i \in failed \cup kept

\* Client::leave: the host node serves a key this device no longer has only
\* if a join is in progress, broke off in a crash or failed, or a leave could
\* not get through.
GhostsAccounted ==
  \A i \in bound \ keys :
    (row[i].exists /\ ~Listed(i)) \/ i \in failed \cup untold

\* restore_guest_node: two endpoints with one key would compete.  However many
\* calls restore a share at once, one endpoint is open, as long as nobody
\* leaves the share.
OneNodePerShare ==
  \A c, d \in nodes : (c[1] = d[1] /\ c[1] \notin left) => c = d

\* prepare (storage.rs) sweeps "rows a failed `join` left behind" when the
\* database is opened: once the app is up again, no row is incomplete.
SweepLeavesNone ==
  [][client = "down" /\ client' = "up"
       => \A i \in Shares : row'[i].exists => row'[i].complete = "TRUE"]_vars

\* LEAVE_TIMEOUT: a leave ends, also when the host node never answers.
LeaveEnds == \A t \in Tasks : (task[t].op = "leave") ~> (task[t].op # "leave")
=============================================================================
