# Verification of wispers-access

wispers-access lets an operator share web apps on one machine (the *host node*,
`waserver`) with other people's devices (*guest nodes*, built on `sdk`) over
QUIC. A guest joins a share by redeeming a one-time *invite* that carries a user
ID; from then on its transport key identifies it. The operator may *revoke* a
guest, and a guest may *leave*.

This directory holds TLA+ models of that system, the TLC runs that check them
on small instances and TLAPS proofs for every instance. `PROJECT.json` is the
machine-readable index: components, runs, the source lines behind every
definition, hazards, findings and theorems. Paths below are relative to the
repository root.

## 1. Inventory

| Component | State it keeps | Operations | Hard part |
|---|---|---|---|
| State database, `waserver/src/storage.rs` | `invites`, `guests`, `kv` tables | `create_invite`, `redeem_invite`, `guest_by_peer`, `touch_guest`, `remove_guest`, `revoke_guest` | re-used guest numbers, retries, one-time use |
| iroh host, `waserver/src/iroh_transport.rs` | one task per connection | accept, look up, activate, look up again, register, serve, unregister; mint, revoke, close the endpoint | identity read once and used later |
| Serving handle, `serving.rs` | registry of live connections, current config, event channel | register, unregister, `revoke_guest`, `shutdown`, `close_connections`, `reload` | database and registry are locked separately; grace timeouts |
| Guest API, `guest_api.rs`, and `protocol.rs` | none of its own | `GET /v1/share`, `GET /v1/events`, `POST /v1/activation`, `DELETE /v1/guest` | `DELETE` is two database calls |
| IPC, `ipc.rs` | the socket | status, invite, revoke, reload, shutdown; client side of the CLI | serial server without a read timeout; stale-socket check |
| Initialisation, `initialization.rs`, and the commands of `main.rs`, `editing.rs` | the share's directory, the rollback list | `up`, `down`, undo in reverse order; serve, stop, reload, edit | undo steps that fail; processes that lock nothing |
| Wispers Connect host, `wispers_connect_transport.rs`, `wcbe.rs` | hub session; membership is at the hub | serve, reconnect, invite, revoke and deregister | two requests, either of which may fail or lose its answer |
| Configuration, `config.rs` | `share.toml`, the config being served | load, validate, look an app or an origin up | streams and guests that hold an older one |
| Host proxies, `reverse_proxy.rs`, `forward_proxy.rs`, `protocol.rs` | one task per stream, with the config of when it was accepted | route, connect, rewrite headers, splice upgrades, tunnel | identity header, streams that must be given back |
| Status, logging | none | reading and formatting | not modelled |
| SDK client, `sdk/src/lib.rs`, `storage.rs`, `secrets.rs` | `shares`, `apps`, `app_ports` rows, secrets, map of live guest nodes | `join`, `refresh`, `leave`, `restore_guest_node`, restart | crash in the middle of a join, leave against restore |
| SDK guest node and transports, `guest_node.rs`, `iroh_transport.rs`, `wispers_connect_transport.rs` | dead flag, probe gate, cached connection | `open_stream`, `check_connection`, `refresh`, `drop_connection` | several tasks failing on one cached connection |
| SDK loopback ports, `lib.rs`, `loopback.rs`, `loopback_forwarding.rs` | bound ports with accept loops, remembered ports | `app_port`, `share_port`, `forward_loopback_origins`, `rebind`, `release` | release during a bind or rebind, other processes |
| SDK proxies, `reverse_proxy.rs`, `forward_proxy.rs`, `loopback_forwarding.rs` | one task per request | admit a browser, look the share up, open a stream, forward, relay | stale app lists, secrets in headers, the connection's stream credits |
| Browser pairing, `pairing.rs` | secret in the secret store, one-time tokens in memory | mint, consume, `/pair` | links opened twice, restarts |
| Wire contract, `wire/src/lib.rs` | none | close codes, activation errors, framing, invite codes | parsing at boundaries |
| waclient, desktop, Android, iOS | user interface | calls into the SDK | not modelled but for the start of the desktop's proxy |

How they interact: connection tasks, `DELETE` handlers, the IPC task and the
signal branch of the accept loop run concurrently on tokio's threads and share
the database (one mutex around one SQLite connection; every method is one
statement or one transaction) and the registry (an `RwLock`). The operator
reaches the daemon over IPC; when that fails, `waserver revoke` writes the
database from its own process. Guests reach the host only over QUIC, which
authenticates their key; the host tells them why a connection ended through
close codes, and the codes `Unknown` and `Revoked` make a guest give the share
up for good.

On the device the SDK runs every call, request and accept loop as a task of one
tokio runtime; they share the client's database, its secret store, the map of
guest nodes and, per guest node, one cached connection. On the host machine the
commands are processes that share a directory and a socket path and lock
neither. Over Wispers Connect the hub holds the membership and both sides change
it by requests whose answers may be lost.

What makes the system correct:

- an invite binds one key, ever, and a guest's user ID is the one its own
  invite carries, however activations, retries, removals and revocations
  interleave;
- a connection is served only under an identity its key was granted;
- a revoked guest is cut off and stays barred, and a revocation answers its
  operator and can be repeated until it is complete;
- shutdown ends, also when `stop` and a signal come together;
- one daemon serves a share, and nothing takes the share from under it;
- what a failed init, join or leave leaves behind, here, on the host or at the
  hub, is known;
- a share the app lists can be used, whatever call failed or crashed before, and
  ends for good only when the host node or the hub said so;
- a share's key is used by one endpoint at a time, a working connection is not
  thrown away, and every call returns;
- an app gets requests only while it is shared, under the right user, without
  the secrets that let browsers in; requests are answered;
- a loopback port is open only as long as somebody owns it, and a browser finds
  it again.

`PROJECT.json` lists the hazards one by one, each at its line.

## 2. Modules

| Module | Models | Extends or instantiates |
|---|---|---|
| `Membership` | abstract specification: what a share promises about who may use it | |
| `StateDb` | the two membership tables and the methods that write them | instantiates `Membership` |
| `IrohHost` | connection tasks, registry, guest API, IPC task, signal, crash and restart, offline `revoke` | extends `StateDb` |
| `ClientShares` | the shares of one device: join, use and leave over iroh, failures, crash and restart | |
| `GuestNode` | one restored guest node: cached connection, probe gate, dead flag, refresh, observer, over both transports | |
| `HostShare` | the commands that work on one share of the host machine: init, deinit, serve, stop, reload, edit, and the events guests hear | |
| `WispersConnect` | membership over Wispers Connect: tokens, nodes, devices, connections, invite and revoke | |
| `LoopbackPorts` | the ports of the SDK's proxies: bind, remember, rebind, release | |
| `Pairing` | the pairing secret, tokens and cookies | |
| `Requests` | requests of browsers through both proxies to an app, on five kinds of port | extends `Pairing` |
| `StateDbProofs`, `IrohHostProofs`, `ClientSharesProofs`, `GuestNodeProofs`, `HostShareProofs`, `WispersConnectProofs`, `LoopbackPortsProofs`, `RequestsProofs` | theorems and proofs | each extends the module in its name and `TLAPS` |
| `MC...` | symmetry sets and values for TLC | each extends the module in its name |

A definition named after another with a suffix (`revoke_guest_deletes`) is
that definition with a plausible mistake in it. No specification uses it; put in
the other's place it must break the property `PROJECT.json` names, which shows
that the property can fail.

### StateDb

A table is a set of rows. `StateDb` methods lock a mutex and run one statement
or one `IMMEDIATE` transaction, so each is one action. `Redemption` is the
decision of `redeem_invite` in the order of its checks. `NextNumber` is SQLite's
rowid choice for an `INTEGER PRIMARY KEY` without `AUTOINCREMENT`: one more than
the largest in use, so the newest guest's number comes back after it left. The
`UNIQUE` constraints are not in the actions; `KeysUnique` shows they never fire.
`grants` and `banned` are history variables that only properties read.

Left out: names and the timestamps that only `status` reads (`created_at`,
`activated_at`, `last_seen_at` and therefore `touch_guest`); database errors,
after which a method has written nothing; hash collisions.

### IrohHost

`phase` is the program counter of a connection's `handle_incoming` task:

    idle -accept-> accepted -lookup-> bound | unbound | gone
    unbound -first stream-> activating -stream ends-> answered
    answered -second lookup-> bound | refused | gone
    refused -grace-> gone        bound -register-> serving -closed-> gone

`closed` is the QUIC connection's fate, independent of the task's: the first
close code wins. `bound` is the `GuestNode` value the task keeps. The registry
holds exactly the connections in phase `serving`. `task` is what the IPC task
(one request at a time) and the signal branch are doing inside `revoke_guest`
or `shutdown`: closing, waiting for connections to unregister, closing the
endpoint. `leaving` holds `DELETE` handlers between their two database calls, each
with the number it looked up. `cli` holds offline revocations between the failed
connect and the write. `raced`, `asked` and the `outrun` of a leave (another request
removed the row of its number since) are history.

`Terminate` ends the process at any point (`crash`) or in order (`exit`); the
tables survive, everything else is lost. Connections are numbered and used
once; a peer's next dial is its next number.

Left out: data-plane streams, which carry `bound` and change nothing; the
probe streams; handshake failures, which end before any state is touched; a
second daemon on the same share; `reload` and events (in `HostShare`); reachability,
which only `status` reads.

### ClientShares

Every method of `storage::Row` locks the database for itself and nothing locks
a whole call, so `task` holds where each of the app's concurrent calls is, and
every write, secret-store access and wait for the network is an action. `row` is
the `shares` table, `keys` the secret store: both survive `crash`. `cellOf` is
the map `guest_nodes`, `filled` the `OnceCell`s that are set and `nodes` those
whose endpoint is open; a cell lives as long as the map or a call owns it
(`Owned`, `ReturnDropping`). `bound` stands for the host node: the keys it has
bound. `join_fails` and `join_answer_lost` end a join at any step, with the row
deleted or, as the error of `delete_row` is ignored, not. `failed`, `left`,
`untold` and `kept` are history variables.

A label is a name with a suffix; `MaxSuffix` is how many of them fit the 63
characters of a DNS label. `Ops` bounds the calls the app makes. `open` is the
sweep as SQL evaluates it: `complete` is `NULL` until `mark_complete`, and
`NULL = FALSE` selects nothing.

Left out: shares over Wispers Connect (in `WispersConnect`); display names, apps,
ports (in `LoopbackPorts`), config hash (in `GuestNode`);
what a call does with its guest node, except that it may learn the share is
dead; a host node that forgets guests by itself; database reads that fail
although the row is there.

### GuestNode

`slot` is each `OnceCell`'s connection and `cell` the current one; a task keeps the cell
it found in `task[t].cell` across its awaits, which is what `evict` compares with.
`gate` is tokio's fair mutex: its holder, then the others in order. A request, a refresh
and a connection check are `call`s; their steps are those between two awaits. `host`,
`config` and `tooOld` stand for the host node, which may turn the device or its version
away at any time. `row` is the stored share, `storeOk` whether every write so far
succeeded. Telling the observer is two steps, as in the code: the row is read back
(`read_share`) and what was read is handed over (`on_share_changed`), with other calls
in between. `unseen` says that the observer was not told of the row as it is now. Cells
are re-used when nobody holds them, as an `Arc` frees itself.

Left out: what a stream carries once it is open (in `Requests`), and the tail of
`join` and `leave` (in `ClientShares`).

### HostShare

Every process of `waserver` is an element of `Procs`; each system call or hub
request of its command is an action. `disk` is the directory file by file, `file`
the content of `share.toml` (`Broken` does not parse), `sock` the socket's path,
`ipc` the servers behind it, `groups` the hub's connectivity groups. `sub` is a
guest with an events stream: a broadcast channel of `EventCap` that drops the
oldest. `deaf`, `lost` (daemons whose socket a start removed that had looked
before they listened), `mess` and each command's `before` (the daemons that were
listening when it began) are histories.

Left out: the port-file variant of the socket for Windows; the status request
deinit sends to a daemon it found (it only names the apps in the refusal);
clients that connect and stay silent; signals, which are in `IrohHost`. Inits and
deinits that overlap are in the model but excused by `GroupsAccounted`.

### WispersConnect

A guest is one invite: its token and node at the hub, its device, its connection
and the operator's command about it. The hub's steps are external and modelled
from how both sides use it: a token is redeemed once, nodes are registered,
activated, revoked and deleted, and tokens and nodes share a quota. Every request
may fail before or after it took effect (`MaxFaults`). `wanted` are guests whose
operator does not give up; `cut`, `raced`, `told` and `orphaned` are histories.

Left out: expiry of the hub session (in `HostShare`), and requests for status.

### LoopbackPorts

`bp` are the `BoundPort`s, one per cell; `cellOf` is the map `bound_ports`,
`fwd` the forwarders the app holds. `sock` says who listens on a port: a cell,
another process, or nobody. An aborted accept loop keeps its socket (`closing`)
until `loop_dropped`. `os_reclaims` is iOS closing the sockets of a suspended
app, `rebind` what the app does afterwards. Calls on the
forwarders, a rebind among them, wait for their mutex (`Waits`) before they do
anything. `Leaked` is a port that was bound for
a cell released meanwhile: the two ways that happens are findings without a run
below, and `OpenIsOwned` shows there are no others. A `BoundPort` is allocated and
forgotten; the model re-uses its cells, and `NumCells` bounds how many are in use at
once: `app_port` and `forward_port` wait for an unused one.

Left out: callers of `app_port` and `share_port` that are cancelled while they bind. The
task they started would go on and write the port it found for nobody, after another
caller may have bound a different one; no client in the repository cancels these calls.

`bind_port` binds IPv4 and then IPv6; here that is one step, both or neither. Nothing
is lost by it. Every attempt begins with IPv4, so whoever has that decides the port for
everybody else in the SDK. An attempt that fails while another one holds IPv4 for a
moment fails as it would have if the process that has IPv6, and makes the other one
fail too, had taken the port when IPv4 was bound.

### Pairing and Requests

`kind` is which of the five ports the browsers use: the host-routed and per-app
reverse proxies, the credential-routed and per-share forward proxies, a loopback
forwarder. A request is a record with a program counter; `headers` is the set of
those of its headers that matter (the cookie the port demands, the pairing cookie
of another client, the proxy credential, an identity header of the page's own,
the one the host node adds). `list` is the guest's stored app list, `config` the
host node's, `frozen` what the stream's context has. An app is one app id and one
origin, shared in reverse-proxy mode, in forward-proxy mode or not at all. A
CONNECT counts as an upgrade. `offered` is a history.

A request that is turned away (no cookie, no credential, another user's process, a
malformed host) is answered at once and has no state; what is modelled is who gets
in. `Lookup::Dead` and `Lookup::Unknown` are one outcome, `gone`. In forward-proxy
mode no identity header is set: the guest talks to the origin itself. A websocket
keeps its stream, and so a credit, until it is closed.

`start` is what a start of the host-routed proxy has found or minted; reading the
secret, saving a new one and binding the port are steps of their own, and an old
process's proxy may serve during the first two, as after an update
(`start_proxy_patiently`). One start is in progress at a time, which
`start_host_routed_proxy` does not enforce: the desktop app runs as a single instance
and starts its proxy once, but two `waclient serve` may run their first start together
(see Findings). The new proxy serves once the old one has ended; the desktop's fallback
to port 0 after its patience, when both serve for a moment, and a second `waclient` on
another port have no state, as both proxies demand the same cookie.

Left out: bodies, URIs and status texts; several apps on one port of a forwarder;
the lookup of a socket's owner, whose answer is taken as given.

## 3. Runs

| Run | Bounds | What it shows |
|---|---|---|
| `statedb` | 3 peers, 3 invites, 2 users, clock to 2 | all table properties and the refinement of `Membership` |
| `irohhost` | 2 peers, 1 connection each with 2 leave requests, 2 invites, 2 users | served identities, what a revocation may miss, that a revoked key stays barred, whose row a leave takes, and that the host is a `StateDb` client |
| `irohhost_live` | 1 peer, 2 connections, 1 invite, clock to 1, no `DELETE` | with two connections of one key and expiry, revocation and shutdown end |
| `clientshares` | 1 share, 2 calls at once | listed shares are whole, leftovers are accounted for, one endpoint per share; a leave ends |
| `sweep` | 1 share, 1 join | violated: see Findings |
| `guestnode` | 2 calls, both transports, 2 faults, 2 configs | no working connection is evicted, a share ends only by what it was told, observers miss nothing |
| `guestnode_live` | 2 calls, iroh, 1 fault | every call returns; refreshes catch up |
| `hostshare` | 2 processes, both transports, 1 fault, quota 2, channel of 2 | one daemon, deinit spares it, guests hear the last reload, groups are accounted for |
| `stop_stops` | 2 processes, Wispers Connect | violated: see Findings |
| `wispersconnect` | 2 guests, a quota with room for one or for both, 2 faults | revoked guests are not served but for one race, quota slots are accounted for, a repeated revoke completes |
| `ports` | 1 share, 2 ports, 2 calls, 4 cells, all three kinds of proxy | ports are owned, remembered and served; calls return |
| `requests` | 5 kinds of port, 1 app, 2 requests, 1 stream, 2 browsers, 1 token, 2 secrets | what reaches an app and under which identity; requests are answered, pairing is once and lasts |

The bounds are the smallest in which the interesting cases happen: a number is re-used
once a guest left and another came (two invites); an identity can be confused only with
a second user; a newcomer can keep a close waiting only with a second connection; a
leave can be outrun only by a second request. Three invites are needed for a guest to
come back under a *different* number; `irohhost` does not reach that exception of
`RevokeMissesOnlyRaces`, the theorem covers it. The wall clock matters for expiry only
and stands still in `irohhost`; `DELETE` is in `irohhost` and not in `irohhost_live`.

Shares meet in nothing but their labels, and the `UNIQUE` column keeps those apart
whatever is written, so one share shows the races between calls. Two calls are enough
for one to act on a connection, cell or port the other has given up; a third would only
wait for the same gate or mutex. Two faults are needed for a redial that fails after a
lost connection and for a revoke and its repetition to fail; a channel of two loses an
event when three reloads come. Two requests and one stream is the smallest case of one
that waits for another's stream; two secrets are needed for a restart to mint another.
Four cells never run out in `ports`: with more of them the states are the same.

Each module's type invariant is checked, alone or as a part of the module's
invariant (`GuestInv`, `HostShareInv`, `WCInv`, `PortsInv`, `RequestsInv`), which is a
conjunction of named parts. `DbInv` is the inductive invariant of the tables.

Deadlock is checked where something can always act. It is not in the runs that
bound faults and config changes, where all may be idle for good: a dead share
(`GuestNode`), a share with two daemons running (`HostShare`), a group whose
guests have all gone (`WispersConnect`).

Fairness is that of the runtime and no more: tokio polls every task that can
proceed and its timers fire, so each process's own steps are weakly fair.
`Terminate`, crashes, network, peers, operator and the database failing are not.
In particular nothing obliges a peer to finish a stream it opened. Beyond that:

- `ClientShares`: only the client's own steps of a leave, its timeout among them;
- `GuestNode`: QUIC's idle timeout ends a silent connection, the host node closes
  those it turned away; `RefreshCatchesUp` also needs the app to ask again and
  again (strong fairness of `call`), which it does whenever it comes to the front;
- `HostShare`: running processes go on; nobody has to start one;
- `WispersConnect`: an operator who wants a guest out repeats the command
  (strong fairness of `revoke`, between other commands);
- `LoopbackPorts`: the semaphore of a `OnceCell` and tokio's mutex over the forwarders
  are first come, first served, hence strong fairness of what passes them (`Turn`:
  `get_or_try_init`, `forward_locked`, `rebind_locked`); the rest of a call, and the
  drop of an aborted accept loop it waits for, are weakly fair (`Runs`);
- `Requests`: an app that was connected answers and an upgraded socket is closed
  at some time; a stream credit goes to whoever waits (strong fairness of
  `open_stream`, as quinn and quiche queue those who open streams).

### Findings

`stop_stops` is violated. `waserver stop` of a daemon that is still connecting to
the hub finds no session to shut down, and `stop_hub_session` succeeds: the command
reports success and the daemon serves on, without a socket, so no later command
reaches it.

`sweep` is violated. `prepare` (`sdk/src/storage.rs:482`) promises "the sweep of rows a
failed `join` left behind", and `complete = FALSE` never matches the `NULL` that
`complete` is until `mark_complete`: the row of a join that was cut off survives every
restart, and so does its label. The share is not listed (`ListedIsWhole`).

Other disagreements between code and comments that are plain from the actions;
the passing properties state how far each goes.

Host:

- `serving.rs` says a revocation "closes its live connections": a connection that
  has looked its guest up and not registered yet survives it, over either
  transport (`RevokeMissesOnlyRaces`, `RevokedNotServed`: `raced`).
- `storage.rs` says of a revoked key that it "is never bound again": `DELETE`
  ignores `revoked_at`, so a request sent before the revocation removes the row
  after it (`BarredUnlessLeft`).
- `remove_guest` is "used when the guests asks to be removed": the two calls of
  `DELETE` and the re-use of numbers let the second of two requests remove the next
  guest.
- `close_connections` tells a stale connection of a guest that left that it was
  revoked when its number's next holder is; `recheck_refused` calls a key unknown
  that was revoked during its own activation; the activation window covers the
  wait for the first stream, not the stream.
- `initialization.rs:24` wants retries of a failed init not to get stuck: when
  `ShareDir::create` fails half way the directory stays, the retry says it exists
  and deinit says it is not initialised.
- A deinit whose answer from the hub was lost cannot be completed: the 404 of the
  retry is an error.
- `to_guests` says a revoked node never shows up in the roster: it does after a
  revoke that failed half way (`ListedNotRevoked`). A revoke whose last answer was
  lost never closes the guest's connection, as the retry finds the node unknown.
- `config.rs:397` calls app ids DNS-label safe; `_` and 64 characters are allowed,
  which the SDK's `is_dns_label` refuses.

SDK:

- "A failed join leaves nothing behind": one that fails after saving its key deletes
  the row only (`KeysAccounted`: `failed`).
- The observer is told "The stored share changed" with the share as one call read it:
  of two calls the one that read first may tell last, and the observer is left with the
  older share. The apps take it as a signal to load the share again.
- `leave` "forgets the share": a restore during a leave puts a guest node into the
  map that stays there, open; and it opens it while `leave` dials with the same key.
- `PerShareForwardProxy::release` "closes the share's port": not while `share_port`
  is binding it; and a proxy dropped during a rebind has its ports opened again
  (`Leaked`).
- "Restore the issuer by reading the secret from storage, or mint a new one": two
  clients on one data directory whose first starts overlap both find no secret and both
  mint one; the next run demands the one saved last, and browsers paired through the
  other have to pair again. `PairedStaysPaired` is about one start at a time.
- A forward proxy that is told an origin is not allowed, and a reverse proxy told
  the client is too old, do not refresh the app list, although both mean it is stale.

## 4. Proofs

All proofs hold for every value of the constants that the named assumptions
admit: bounds and capacities are natural numbers (`ValidityAssumption`,
`TimeAssumption`, `ConnsAssumption`, `SuffixAssumption`, `GuestBounds`,
`HostShareBounds`, `WCBounds`, `CellsAssumption`, `PairingAssumption`,
`RequestsAssumption`); the apps of a share want some of the ports there are
(`WantsAssumption`); the
sets of calls, requests, browsers, tokens and guests are finite, because cells
and stream credits are counted; and names that a variable may hold besides a
process or an app are not the name of one (`NamesAssumption`, `AppsAssumption`,
`NoneAssumption`).
Each inductive invariant was an invariant of a TLC run before it was proved.

**Tables** (`StateDbProofs`). `DbInv` is inductive relative to `DbTypeOK`. One-time use
(`InviteBindsOne`, a part of it) is not inductive by itself: that a secret was granted
must show in its row (`ConsumedIffRedeemed`), the row must exist (`GrantsRecorded`) and
be unique (`KeysUnique`); that the next number is free follows from `NextNumber` being
above every number in use. `RetryIsAnswered` follows from `IdentityFromInvite` and
unique peers. `DbImplementsMembership` maps each method to a step of `Membership` or a
stutter.

**Host** (`IrohHostProofs`). `StepsUseDb` shows every step is a `StateDb` call or
leaves the tables alone; with `HostImplementsDb` the table theorems carry over.
`HostInv` adds three parts. `BoundWhileServed` ties a resolved guest to the
task's phase. `RevokedSeen` is the claim of `RevokeMissesOnlyRaces` for tasks
that have resolved their guest whether or not they registered: such a task's
guest is not revoked, or the pass over the registry is still to come, or the
connection is closed, or it is recorded in `raced`. `ServedIsGranted` needs
`IdentityFromInvite` at the lookup and that invites and grants persist
(`GrantsPersist`). The step proof groups the actions into kinds (`StepKinds`) by
what they do to resolved guests, so that each kind is argued once.

`LeavesTakeNobodyElse` needs `LeavesNamed`: requests in flight are told apart by their
connection and number of request, and one that was not outrun holds the number of its
own peer's row. `outrun` is set when another request removes the row of that number, so
only one that was can hold a number that another peer got since.

`BarredStayBarred` needs no part of `HostInv`: `BarredKept` says that while nobody
has sent a `DELETE` none is in flight and every barred key has its revoked row,
which every method but `remove_guest` keeps (`StepsKeepRows`, `RevokedRowsStay`).

**Shares of a device** (`ClientSharesProofs`). `SharesIInv` says of each share what
rows, keys and host node may disagree about (`ShareInv`), of each join which of
its writes are done at its step (`JoinInv`), of each leave that it forgets the key
only once the host node was told or is known not to be, and the row only once the
key is gone or known to stay (`LeaveInv`). `JoinsAlone` is what makes the steps
compose: nobody else deals with a share until its join lists it, so a step of one
call is argued for its own share alone (`ShareMove`). A crash then is safe because
a request still on its way binds only a key whose row is there and unlisted, or
forgets one that is being left. `CellsInv` gives `OneNodePerShare`; that a new cell
exists is a counting argument over the calls (`NewCellFree`), which `SharesTyped` needs
because a cell is dropped with its last owner and no sooner. That labels are unique is a
part of the invariant, not a theorem: the schema's `UNIQUE` column would fail a join
before it let two rows have one.

**Guest node** (`GuestNodeProofs`). `GuestIInv` adds to the checked properties that
the gate's queue holds each waiting call once and a running check is its head
(`GateInv`), that a call which looks at a connection holds a cell (`CallsHold`), and
that a terminal close code in any cell is what the host node holds the device to be
(`CodesTrue`), without which `TerminalIsTold` is not inductive. `LiveConnectionStays`
is an action property, proved step by step from the same invariant.

**Host machine** (`HostShareProofs`). `HostIInv` relates processes that share nothing
but files and a socket. `QueuesInv`: who is queued at a daemon's socket waits there
once, for a daemon that serves. `ServersInv`: a daemon that was listening when a
command began still owns the socket or is unheard, and a command that has passed
its check found all of them unheard. `StreamInv`: a guest's stream is that of a
running daemon and has, or is about to get, the event of the last reload.
`GroupsInv`: what the one init or deinit in progress has done, step by step, and
what its rollback still has to undo (`InitInv`, `DeinitInv`).

The proof corrected the model's properties. `OneServer` and `DeinitSpares` used to
excuse only daemons that had gone deaf. The step proof of the socket's removal
failed, and TLC confirms it with three processes, which the two of `hostshare`
cannot show: two starts find a stale socket, the first removes it and listens, a
third command begins and so counts on that daemon, and the second start removes
the first one's socket. The daemon serves on and nobody finds it. `lost` records
these daemons, and both properties now name them.

**Wispers Connect** (`WispersConnectProofs`). `WCIInv` adds where a command can stand
(`OpInv`), that the hub has a node only for a redeemed token (`NodesRedeemed`), why a
node is revoked (`RevokedExplained`, which ties it to a *revoke* in progress, not to
any command about the guest), and that a guest that was cut off has no node and no
connection that was not being accepted (`CutOff`).

**Loopback ports** (`LoopbackPortsProofs`). `PortsIInv` is about the cells, their owners
and the calls. `CellInv` ties what listens to what is recorded: a cell that listens is
set, has its loops and has an owner, or is being closed; and an owned cell is being
closed only while a rebind awaits its loops, which is why that rebind, and no other,
finds the port free. `OwnersInv`: no two keys and no two forwarders share a cell.
`CallsInv`: one call at a time binds a cell, one at a time has the forwarders, a share's
call has the cell of its key until the share is left, and it comes back with the port
the row remembers. `ServedUnlessTaken` follows because a cell that no call holds is in
no rebind. Most actions move one call and at most one cell, so `CallMove` and `CellElse`
argue once for everything else.

The proof made the model say more. `OpenIsOwned` used to excuse cells that a call
still holds; `CellInv` needs no such excuse, and the property has lost it. The number
of cells was a formula in the numbers of keys, ports and calls that was too small for
some instances, where `NewCell` would have been undefined; it is a bound now.

**Pairing and requests** (`RequestsProofs`). `PairingInv` needs one fact beyond the two
properties: a proxy that runs demands the stored secret, and a start that has one has
that one. Requests are independent
but for the stream credits (`OneRequestMoves`), so each action is argued for its own
request: `Travels` says what holds until it gets to an app (no cookie, no identity
header of the host node's, and the target was offered if it is offered, frozen or
tunnelled to now), `Arrived` what holds from then on.

Only model-checked: the liveness properties (`RevokeReturns`, `RevokedCutOff`,
`ShutdownCompletes`, `LeaveEnds`, `CallsReturn`, `RefreshCatchesUp`,
`RevokeCompletes`, `PortCallsReturn`, `RequestsAnswered`), as fairness is beyond the
prover. Every other property that a passing run checks is stated by a theorem.
No module has a recursive operator.

## 5. Plan

Every safety property of a passing run is proved. To follow, where the invariants
allow more to be said: action properties of the components that have none (a remembered
port changes only when it is taken or the share is left; a row becomes complete once),
and the safety facts the liveness properties rest on, among them that a waiting call
always has somebody to wait for.

## 6. Not modelled

- `status.rs`, `logging.rs` and the SDK's `logging.rs`: they read state and format it.
- `certificates.rs`: X.509 parsing; `check_origin_trust` reads and changes nothing.
- The text of invite codes, origins and `share.toml`: pure conversions, tested by
  round trips in the repository.
- `daemon.rs`: starting a detached process is operating system work.
- waclient, desktop, Android and iOS: user interfaces around the SDK, whose calls are
  the actions above; of the desktop, only how it starts its proxy is modelled.
