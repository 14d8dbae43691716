------------------------------ MODULE Requests -------------------------------
(***************************************************************************)
(* Requests of browsers to shared apps: the SDK's proxies on the loopback  *)
(* device (sdk/src/reverse_proxy.rs, forward_proxy.rs,                     *)
(* loopback_forwarding.rs, loopback.rs), the streams to the host node      *)
(* (wire/src/lib.rs) and the host node's proxies (waserver/src/protocol.rs,*)
(* reverse_proxy.rs, forward_proxy.rs, upstream.rs).                       *)
(*                                                                         *)
(* The guest node decides by the app list it stored last, the host node by *)
(* the configuration it had when it accepted the stream, and it may reload *)
(* at any time.  Every request has a stream of its own, of which the       *)
(* connection carries so many at once.                                     *)
(***************************************************************************)
EXTENDS Pairing

CONSTANTS Apps,      \* apps the share may have; each is one app id and one origin
          Kinds,     \* kinds of loopback port
          Reqs,      \* requests in progress at once
          MaxStreams \* streams the host node lets a connection have

ReverseKinds == {"host-routed", "per-app"}
ForwardKinds == {"credential", "per-share", "loopback"}

ASSUME RequestsAssumption ==
  /\ Kinds \subseteq ReverseKinds \cup ForwardKinds
  /\ MaxStreams \in Nat \ {0} /\ IsFiniteSet(Reqs) /\ IsFiniteSet(Apps)
ASSUME AppsAssumption == Apps \cap {"elsewhere", "nowhere"} = {}

VARIABLES kind,       \* the port the browsers use
          userId,     \* whether the guest's user id can be a header value
          share,      \* what restore_guest_node finds
          config,     \* the host node's: how it shares each app
          list,       \* the guest node's stored copy
          req,        \* requests in progress
          refreshing  \* a refresh was spawned

requests == <<kind, userId, share, config, list, req, refreshing>>
guest == <<kind, userId, share, config, list, refreshing>>
vars == <<requests, pairing>>

Modes == {"absent", "reverse-proxy", "forward-proxy"}
Configs == [Apps -> Modes]
Elsewhere == "elsewhere"   \* a host the share has nothing at
Nowhere == "nowhere"
None == "none"

\* What a request carries that matters here: the cookie the port demands, the
\* pairing cookie of another client, a proxy credential, an identity header of
\* the page's making; and the identity header the host node adds.
Headers == {"cookie", "foreign-cookie", "credential", "claimed-user", "user"}

Idle == [step |-> "idle", target |-> Nowhere, upgrade |-> FALSE, headers |-> {},
         frozen |-> "absent", offered |-> FALSE, at |-> Nowhere, answer |-> None]

Waiting == {"lookup", "open", "opened", "accepted", "tunnelled", "connected", "answered", "direct"}
HasStream == {"opened", "accepted", "tunnelled", "connected", "answered", "relay", "closing"}
Streams == {r \in Reqs : req[r].step \in HasStream}

Answers == {None, "ok", "switching", "upstream-404", "app-not-found", "too-old", "bad-gateway", "not-allowed"}

RequestsTypeOK ==
  /\ PairingTypeOK
  /\ kind \in Kinds /\ userId \in BOOLEAN
  /\ share \in {"live", "gone"}
  /\ config \in Configs /\ list \in Configs
  /\ req \in [Reqs -> [step : Waiting \cup HasStream \cup {"idle"}, target : Apps \cup {Elsewhere, Nowhere},
                       upgrade : BOOLEAN, headers : SUBSET Headers, frozen : Modes, offered : BOOLEAN,
                       at : Apps \cup {Elsewhere, Nowhere}, answer : Answers]]
  /\ refreshing \in BOOLEAN
  /\ Cardinality(Streams) <= MaxStreams

RequestsInit ==
  /\ kind \in Kinds /\ userId \in BOOLEAN
  /\ kind # "per-app" => userId  \* no identity header in forward mode, and the same on both reverse kinds
  /\ share = "live"
  /\ config \in Configs /\ list = config
  /\ req = [r \in Reqs |-> Idle]
  /\ refreshing = FALSE
  /\ IF kind = "host-routed"
       THEN PairingInit
       ELSE \* the client app sets the cookie in its webviews, or has the credential
            /\ secret = 1 /\ minted = 1 /\ start = NoStart /\ cookie = 1
            /\ tokens = [k \in Tokens |-> "none"] /\ issued = [k \in Tokens |-> 0]
            /\ jar = [b \in Browsers |-> 1]

-----------------------------------------------------------------------------
(* Headers *)

\* The cookie of a loopback forwarder.
strip_cookies(h) == h \ {"cookie"}

scrub_own(h) == h \ {"cookie"}

\* Authenticator::scrub: the cookies of other clients' proxies too.
scrub(h) == h \ {"cookie", "foreign-cookie"}

strip_hop_by_hop_headers(h) == h \ {"credential"}

inject_identity_over(h) == h \cup (IF userId THEN {"user"} ELSE {})

\* A user id that cannot be a header value is left out, and so is what came in.
inject_identity(h) == (h \ {"claimed-user"}) \cup (IF userId THEN {"user"} ELSE {})

-----------------------------------------------------------------------------
(* The guest node's proxies *)

Step(r, step) == req' = [req EXCEPT ![r].step = step]
Close(r) == req' = [req EXCEPT ![r] = [Idle EXCEPT !.step = "closing", !.answer = req[r].answer]]
Mode == IF kind \in ReverseKinds THEN "reverse-proxy" ELSE "forward-proxy"
Offers(c, target) == target \in Apps /\ c[target] = Mode

\* A request that the port's own checks let through.
Enter(r, target, upgrade, headers) ==
  req' = [req EXCEPT ![r] = [Idle EXCEPT !.step = "lookup", !.target = target, !.upgrade = upgrade,
                                         !.headers = headers, !.offered = Offers(config, target)]]

\* Whether the port lets a browser in: by the cookie, by the share's credential,
\* which the client app answers the 407 with, or by the OS user it runs as.
Admits(b) == is_presented_in(b)

\* What a browser sends: the cookies of CookieIssuer::set_cookie_header, the
\* one of start_per_app_proxy or of LoopbackForwarder::cookie, or the credential
\* of CredentialRoutedForwardProxy::credential, and what a page adds.
Sent == CASE kind = "host-routed" -> {"cookie", "foreign-cookie", "claimed-user"}
          [] kind = "per-app" -> {"cookie", "claimed-user"}
          [] kind = "credential" -> {"credential"}
          [] kind = "per-share" -> {}
          [] kind = "loopback" -> {"cookie"}

\* reverse_proxy::forward up to its first await: the route and the cookie.  Who
\* is turned away has the answer at once, here as on the other ports.
forward(r, b, app, upgrade) ==
  /\ kind \in ReverseKinds /\ req[r] = Idle /\ Admits(b)
  /\ Enter(r, app, upgrade, scrub(Sent))
  /\ UNCHANGED <<guest, pairing>>

\* forward_proxy::handle_request: only what the stored list has goes to the host
\* node.  An upgrade is a CONNECT here.
handle_request(r, b, app, upgrade) ==
  /\ kind \in {"credential", "per-share"} /\ req[r] = Idle /\ Admits(b)
  /\ Offers(list, app)
  /\ Enter(r, app, upgrade, Sent)
  /\ UNCHANGED <<guest, pairing>>

\* The rest a per-share port connects to from this device.
go_direct(r, b, target) ==
  /\ kind = "per-share" /\ req[r] = Idle /\ Admits(b)
  /\ ~Offers(list, target)
  /\ req' = [req EXCEPT ![r] = [Idle EXCEPT !.step = "direct", !.target = target, !.at = Elsewhere,
                                            !.headers = strip_hop_by_hop_headers(Sent)]]
  /\ UNCHANGED <<guest, pairing>>

answered_directly(r) ==
  /\ req[r].step = "direct"
  /\ req' = [req EXCEPT ![r] = Idle]
  /\ UNCHANGED <<guest, pairing>>

\* loopback_forwarding::handle_request: the port itself names the origin, and the
\* forwarder's list may be older than the stored one.  A page of the share gets
\* in without the cookie.
forward_loopback(r, b, app, upgrade) ==
  /\ kind = "loopback" /\ req[r] = Idle
  /\ \/ Admits(b) /\ Enter(r, app, upgrade, strip_cookies(Sent))
     \/ Enter(r, app, upgrade, strip_cookies({}))
  /\ UNCHANGED <<guest, pairing>>

\* Client::restore_guest_node
restore_guest_node(r) ==
  /\ req[r].step = "lookup"
  /\ IF share = "live" THEN Step(r, "open") ELSE req' = [req EXCEPT ![r] = Idle]
  /\ UNCHANGED <<guest, pairing>>

\* open_reverse_proxy_stream, open_forward_proxy_stream: the type byte and the
\* preamble, once the connection has a stream to give.
open_stream(r) ==
  /\ req[r].step = "open" /\ Cardinality(Streams) < MaxStreams
  /\ Step(r, "opened")
  /\ UNCHANGED <<guest, pairing>>

\* No connection, or it is lost with the streams it carries.
unavailable(r) ==
  /\ req[r].step \in Waiting
  /\ req' = [req EXCEPT ![r] = Idle]
  /\ UNCHANGED <<guest, pairing>>

-----------------------------------------------------------------------------
(* The host node *)

accept_stream_list(r) ==
  /\ req[r].step = "opened"
  /\ req' = [req EXCEPT ![r].step = "accepted", ![r].frozen = IF req[r].target \in Apps THEN list[req[r].target] ELSE "absent"]
  /\ UNCHANGED <<guest, pairing>>

\* The stream's context has the configuration of this moment.
accept_stream(r) ==
  /\ req[r].step = "opened"
  /\ req' = [req EXCEPT ![r].step = "accepted", ![r].frozen = IF req[r].target \in Apps THEN config[req[r].target] ELSE "absent"]
  /\ UNCHANGED <<guest, pairing>>

Answered(r, answer) == req' = [req EXCEPT ![r].step = "answered", ![r].answer = answer, ![r].frozen = "absent"]

\* app_target, ShareConfig::has_proxied_origin
refuse(r) ==
  /\ req[r].step = "accepted" /\ req[r].frozen # Mode
  /\ Answered(r, CASE Mode = "forward-proxy" -> "not-allowed"
                   [] req[r].frozen = "forward-proxy" -> "too-old"
                   [] OTHER -> "app-not-found")
  /\ UNCHANGED <<guest, pairing>>

\* upstream::connect fails; a tunnel gives it CONNECT_TIMEOUT, a reverse-proxied
\* request waits until the system gives up.
unreachable(r) ==
  /\ req[r].step = "accepted" /\ req[r].frozen = Mode
  /\ Answered(r, "bad-gateway")
  /\ UNCHANGED <<guest, pairing>>

\* What the app gets of the request: through the host node's proxy, or down the
\* tunnel by the guest's, unless it is a CONNECT, whose bytes nobody looks at.
Delivered(r) ==
  CASE Mode = "reverse-proxy" -> inject_identity(strip_hop_by_hop_headers(req[r].headers))
    [] Mode = "forward-proxy" /\ kind # "loopback" /\ req[r].upgrade -> {}
    [] OTHER -> strip_hop_by_hop_headers(req[r].headers)

Deliver(r) == req' = [req EXCEPT ![r].step = "connected", ![r].at = req[r].target,
                                 ![r].headers = Delivered(r), ![r].frozen = "absent"]

forward_to_upstream(r) ==
  /\ req[r].step = "accepted" /\ req[r].frozen = Mode /\ Mode = "reverse-proxy"
  /\ Deliver(r)
  /\ UNCHANGED <<guest, pairing>>

\* forward_proxy::serve has the origin on the line and says so.
tunnel_opened(r) ==
  /\ req[r].step = "accepted" /\ req[r].frozen = Mode /\ Mode = "forward-proxy"
  /\ req' = [req EXCEPT ![r].step = "tunnelled", ![r].frozen = "absent"]
  /\ UNCHANGED <<guest, pairing>>

\* The guest node reads that, and sends the request or starts to relay.
open_tunnel(r) ==
  /\ req[r].step = "tunnelled"
  /\ Deliver(r)
  /\ UNCHANGED <<guest, pairing>>

CONNECT(r) == kind \in {"credential", "per-share"} /\ req[r].upgrade

upstream_answers(r) ==
  /\ req[r].step = "connected"
  /\ \/ ~CONNECT(r) /\ \E answer \in {"ok", "upstream-404", "bad-gateway"} : Answered(r, answer)
     \/ req[r].upgrade /\ Answered(r, "switching")
  /\ UNCHANGED <<guest, pairing>>

\* ServingHandle::reload, as a stream to come sees it.
reload(c) ==
  /\ c # config
  /\ config' = c
  /\ req' = [r \in Reqs |-> [req[r] EXCEPT !.offered = req[r].step # "idle" /\ (@ \/ Offers(c, req[r].target))]]
  /\ UNCHANGED <<kind, userId, share, list, refreshing, pairing>>

-----------------------------------------------------------------------------
(* The answer on its way back *)

\* The guest node passes the response on.  A 404 of the host node's own means
\* that the list is stale: it is refreshed in the background.
pass_on(r) ==
  /\ req[r].step = "answered" /\ req[r].answer # "switching"
  /\ Close(r)
  /\ refreshing' = (refreshing \/ req[r].answer = "app-not-found")
  /\ UNCHANGED <<kind, userId, share, config, list, pairing>>

\* A 101, or the answer to a CONNECT: bytes are relayed from here on.
switch_protocols(r) ==
  /\ req[r].step = "answered" /\ req[r].answer = "switching"
  /\ Step(r, "relay")
  /\ UNCHANGED <<guest, pairing>>

\* Both directions of the relay have closed.
relay_ends(r) ==
  /\ req[r].step = "relay"
  /\ Close(r)
  /\ UNCHANGED <<guest, pairing>>

\* The browser goes away, and its request with it.
browser_gone(r) ==
  /\ req[r].step \in HasStream \ {"relay", "closing"}
  /\ Close(r)
  /\ UNCHANGED <<guest, pairing>>

stream_finished_upgraded(r) ==
  /\ req[r].step = "closing" /\ req[r].answer \in {None, "switching"}
  /\ req' = [req EXCEPT ![r] = Idle]
  /\ UNCHANGED <<guest, pairing>>

\* One request per stream: connection: close has both ends finish it after the
\* response, and the connection has its credit back.
stream_finished(r) ==
  /\ req[r].step = "closing"
  /\ req' = [req EXCEPT ![r] = Idle]
  /\ UNCHANGED <<guest, pairing>>

-----------------------------------------------------------------------------
(* The rest of the guest node *)

\* GuestNode::refresh stores what the host node has.
refresh ==
  /\ refreshing /\ share = "live"
  /\ list' = config /\ refreshing' = FALSE
  /\ UNCHANGED <<kind, userId, share, config, req, pairing>>

\* No connection; there is a warning.  The list stays stale.
refresh_failed ==
  /\ refreshing
  /\ refreshing' = FALSE
  /\ UNCHANGED <<kind, userId, share, config, list, req, pairing>>

\* Revoked, removed or left: Lookup::Dead or Lookup::Unknown from now on.
share_ends ==
  /\ share = "live"
  /\ share' = "gone"
  /\ UNCHANGED <<kind, userId, config, list, req, refreshing, pairing>>

\* The client app exits, and its connections with it.
client_exits ==
  /\ kind = "host-routed" /\ proxy_ends
  /\ req' = [r \in Reqs |-> Idle] /\ refreshing' = FALSE
  /\ UNCHANGED <<kind, userId, share, config, list>>

Pairs ==
  /\ kind = "host-routed"
  /\ \/ Starts
     \/ \E k \in Tokens : mint_token(k) \/ token_expires(k)
     \/ \E b \in Browsers, k \in Tokens : answer_pair(b, k)
     \/ \E b \in Browsers : cookie_forgotten(b)
  /\ UNCHANGED requests

-----------------------------------------------------------------------------
\* What a request goes through once it is let in.
Serves(r) ==
  \/ restore_guest_node(r) \/ open_stream(r) \/ accept_stream(r) \/ refuse(r) \/ unreachable(r)
  \/ forward_to_upstream(r) \/ tunnel_opened(r) \/ open_tunnel(r) \/ upstream_answers(r) \/ pass_on(r)
  \/ switch_protocols(r) \/ relay_ends(r) \/ stream_finished(r) \/ answered_directly(r)

RequestsNext ==
  \/ \E r \in Reqs : Serves(r) \/ unavailable(r) \/ browser_gone(r)
  \/ \E r \in Reqs, b \in Browsers, app \in Apps, upgrade \in BOOLEAN :
       forward(r, b, app, upgrade) \/ handle_request(r, b, app, upgrade) \/ forward_loopback(r, b, app, upgrade)
  \/ \E r \in Reqs, b \in Browsers, target \in Apps \cup {Elsewhere} : go_direct(r, b, target)
  \/ \E c \in Configs : reload(c)
  \/ refresh \/ refresh_failed \/ share_ends \/ client_exits \/ Pairs

RequestsSpec == RequestsInit /\ [][RequestsNext]_vars

\* The runtimes poll every task, the apps answer, sockets that were upgraded are
\* closed at some time, and a stream that is free goes to whoever waits.
RequestsLiveSpec ==
  /\ RequestsSpec
  /\ \A r \in Reqs : WF_vars(Serves(r)) /\ SF_vars(open_stream(r))

-----------------------------------------------------------------------------
(* Properties *)

\* An app gets a request through the host node only if the host node shared it,
\* and in that way, at some moment since the request came in: neither the
\* guest's stale list nor a stream that was opened before opens what a reload
\* took away.
SharedWhenAsked == \A r \in Reqs : req[r].at \in Apps => req[r].offered

\* What lets a browser into a loopback port never gets as far as an app: the
\* pairing cookies of this and of other clients, a webview's cookie, the proxy
\* credential.
SecretsStay ==
  \A r \in Reqs : req[r].at # Nowhere => req[r].headers \cap {"cookie", "foreign-cookie", "credential"} = {}

\* Requests are well formed, no more than the connection carries, and leave
\* every secret behind (RequestsTypeOK, SecretsStay).
RequestsInv == RequestsTypeOK /\ SecretsStay

\* An app in reverse-proxy mode is told the user the host node knows for the
\* connection, or nobody if the user id cannot be told in a header; never what
\* the page says.
IdentityTrue ==
  \A r \in Reqs : Mode = "reverse-proxy" /\ req[r].at \in Apps =>
    req[r].headers \cap {"user", "claimed-user"} = {h \in {"user"} : userId}

\* Every request is answered, although all share the connection's streams.
RequestsAnswered == \A r \in Reqs : req[r].step \in Waiting ~> req[r].step \notin Waiting
=============================================================================
