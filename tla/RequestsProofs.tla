--------------------------- MODULE RequestsProofs ---------------------------
(***************************************************************************)
(* Browser pairing and the requests of paired browsers, for any number of  *)
(* browsers, tokens, apps and requests: a token lets one browser in, a     *)
(* paired browser stays paired, and a request reaches an app only while it *)
(* is shared, without the secrets it came with and under the true identity.*)
(***************************************************************************)
EXTENDS Requests, FiniteSetTheorems, TLAPS

\* A proxy that runs demands the stored secret, and one that starts has it or
\* found none: with it PairedStaysPaired and TokensPairOnce are inductive.
PairingInv ==
  /\ PairingTypeOK
  /\ cookie \in {0, secret}
  /\ start \in {NoStart, secret}
  /\ TokensPairOnce
  /\ PairedStaysPaired

\* A step of the pairing, or one of the requests it says nothing about.
PairingStep == PairingNext \/ UNCHANGED pairing

LEMMA PairingInvPreserved ==
  ASSUME PairingInv, PairingStep
  PROVE  PairingInv'
<1> USE PairingAssumption
    DEF PairingInv, PairingTypeOK, TokensPairOnce, PairedStaysPaired, Secrets, NoStart
<1>1. CASE Starts
  <2>1. CASE restore
    BY <2>1 DEF restore
  <2>2. CASE mint
    <3>1. /\ minted' \in Secrets /\ secret' = minted' /\ start' = minted' /\ secret = 0
          /\ UNCHANGED <<cookie, tokens, issued, jar>>
      BY <2>2 DEF mint
    <3>2. \A b \in Browsers : jar[b] = 0
      BY <3>1
    <3> QED
      BY <3>1, <3>2
  <2>3. CASE start_host_routed_proxy
    BY <2>3 DEF start_host_routed_proxy
  <2>4. CASE start_fails
    BY <2>4 DEF start_fails
  <2> QED
    BY <1>1, <2>1, <2>2, <2>3, <2>4 DEF Starts
<1>2. CASE proxy_ends
  BY <1>2 DEF proxy_ends
<1>3. ASSUME NEW k \in Tokens, mint_token(k)
      PROVE  PairingInv'
  BY <1>3 DEF mint_token
<1>4. ASSUME NEW k \in Tokens, token_expires(k)
      PROVE  PairingInv'
  BY <1>4 DEF token_expires
<1>5. ASSUME NEW b \in Browsers, NEW k \in Tokens, answer_pair(b, k)
      PROVE  PairingInv'
  <2>1. UNCHANGED <<secret, minted, start, cookie>> /\ cookie # 0
    BY <1>5 DEF answer_pair
  <2>2. CASE UNCHANGED <<tokens, issued, jar>>
    BY <2>1, <2>2
  <2>3. CASE tokens[k] = "live" /\ ~is_presented_in(b)
    <3>1. /\ tokens' = [tokens EXCEPT ![k] = "gone"]
          /\ jar' = [jar EXCEPT ![b] = cookie]
          /\ issued' = [issued EXCEPT ![k] = @ + 1]
      BY <1>5, <2>3 DEF answer_pair, consume_token
    <3>2. issued[k] = 0
      BY <2>3
    <3> QED
      BY <2>1, <3>1, <3>2
  <2>4. CASE tokens[k] = "expired" /\ ~is_presented_in(b)
    <3>1. tokens' = [tokens EXCEPT ![k] = "gone"] /\ UNCHANGED <<issued, jar>>
      BY <1>5, <2>4 DEF answer_pair, consume_token
    <3> QED
      BY <2>1, <3>1
  <2> QED
    BY <1>5, <2>2, <2>3, <2>4 DEF answer_pair, consume_token
<1>6. ASSUME NEW b \in Browsers, cookie_forgotten(b)
      PROVE  PairingInv'
  BY <1>6 DEF cookie_forgotten
<1>7. CASE UNCHANGED pairing
  BY <1>7 DEF pairing
<1> QED
  BY <1>1, <1>2, <1>3, <1>4, <1>5, <1>6, <1>7 DEF PairingStep, PairingNext

\* The pairing of a host-routed proxy by itself.
THEOREM PairingInvariant == PairingSpec => []PairingInv
<1>1. PairingInit => PairingInv
  BY PairingAssumption
     DEF PairingInit, PairingInv, PairingTypeOK, TokensPairOnce, PairedStaysPaired, Secrets, NoStart
<1>2. PairingInv /\ [PairingNext]_pairing => PairingInv'
  BY PairingInvPreserved DEF PairingStep
<1> QED
  BY <1>1, <1>2, PTL DEF PairingSpec

-----------------------------------------------------------------------------
(***************************************************************************)
(* Requests.                                                               *)
(***************************************************************************)

\* The cookies and tokens change by the steps of Pairing only.
LEMMA RequestsPair ==
  ASSUME [RequestsNext]_vars
  PROVE  PairingStep
<1>1. ASSUME Pairs
      PROVE  PairingStep
  BY <1>1 DEF Pairs, PairingStep, PairingNext
<1>2. ASSUME client_exits
      PROVE  PairingStep
  BY <1>2 DEF client_exits, PairingStep, PairingNext
<1>3. ASSUME UNCHANGED pairing
      PROVE  PairingStep
  BY <1>3 DEF PairingStep
<1>4. ASSUME NEW r \in Reqs, Serves(r) \/ unavailable(r) \/ browser_gone(r)
      PROVE  UNCHANGED pairing
  BY <1>4 DEF Serves, unavailable, browser_gone, restore_guest_node, open_stream, accept_stream,
       refuse, unreachable, forward_to_upstream, tunnel_opened, open_tunnel, upstream_answers,
       pass_on, switch_protocols, relay_ends, stream_finished, answered_directly
<1>5. ASSUME NEW r \in Reqs, NEW b \in Browsers, NEW app \in Apps \cup {Elsewhere}, NEW upgrade \in BOOLEAN,
             \/ forward(r, b, app, upgrade) \/ handle_request(r, b, app, upgrade)
             \/ forward_loopback(r, b, app, upgrade) \/ go_direct(r, b, app)
      PROVE  UNCHANGED pairing
  BY <1>5 DEF forward, handle_request, forward_loopback, go_direct
<1>6. ASSUME (\E c \in Configs : reload(c)) \/ refresh \/ refresh_failed \/ share_ends
      PROVE  UNCHANGED pairing
  BY <1>6 DEF reload, refresh, refresh_failed, share_ends
<1>7. ASSUME UNCHANGED vars
      PROVE  UNCHANGED pairing
  BY <1>7 DEF vars
<1> QED
  BY <1>1, <1>2, <1>3, <1>4, <1>5, <1>6, <1>7 DEF RequestsNext

\* What is true of a request on its way: up to the app it carries no cookie and
\* no identity header of the host node's; the host node shared its target since
\* it came in if it does now, or if the stream's context or its tunnel says so.
OnItsWay == {"lookup", "open", "opened", "accepted", "tunnelled"}
ThereAlready == {"connected", "answered", "relay", "direct"}

Travels(q) ==
  /\ q.step \in OnItsWay => /\ q.at = Nowhere
                            /\ q.headers \cap {"cookie", "foreign-cookie", "user"} = {}
  /\ q.step \in {"lookup", "open", "opened"} => (Offers(config, q.target) => q.offered)
  /\ q.step = "accepted" => (q.frozen = Mode => q.offered)
  /\ q.step = "tunnelled" => q.offered

\* What is true of one that has got there.
Arrived(q) ==
  q.at # Nowhere =>
    /\ q.step \in ThereAlready
    /\ q.headers \cap {"cookie", "foreign-cookie", "credential"} = {}
    /\ q.at \in Apps => q.offered
    /\ q.at \in Apps /\ Mode = "reverse-proxy" =>
         q.headers \cap {"user", "claimed-user"} = {h \in {"user"} : userId}

Request == [step : Waiting \cup HasStream \cup {"idle"}, target : Apps \cup {Elsewhere, Nowhere},
            upgrade : BOOLEAN, headers : SUBSET Headers, frozen : Modes, offered : BOOLEAN,
            at : Apps \cup {Elsewhere, Nowhere}, answer : Answers]

Good(q) == q \in Request /\ Travels(q) /\ Arrived(q)

RequestsIInv ==
  /\ PairingInv
  /\ kind \in Kinds /\ userId \in BOOLEAN
  /\ share \in {"live", "gone"}
  /\ config \in Configs /\ list \in Configs
  /\ refreshing \in BOOLEAN
  /\ req \in [Reqs -> Request]
  /\ \A r \in Reqs : Good(req[r])
  /\ Cardinality(Streams) <= MaxStreams

\* Requests are independent of each other: it is enough to look at the one that
\* moves, and at the streams it takes.
LEMMA OneRequestMoves ==
  ASSUME RequestsIInv, NEW r \in Reqs, NEW q, Good(q),
         req' = [req EXCEPT ![r] = q],
         q.step \in HasStream => req[r].step \in HasStream \/ Cardinality(Streams) < MaxStreams,
         UNCHANGED <<kind, userId, config>>
  PROVE  /\ (\A s \in Reqs : Good(req[s]))'
         /\ (Cardinality(Streams) <= MaxStreams)'
<1> USE DEF RequestsIInv
<1>1. q \in Request
  BY DEF Good
<1>2. ASSUME NEW s \in Reqs
      PROVE  Good(req[s])'
  <2>1. req'[s] = IF s = r THEN q ELSE req[s]
    OBVIOUS
  <2>2. Good(req'[s])
    BY <2>1
  <2> QED
    BY <2>2 DEF Good, Travels, Arrived, Mode, Offers
<1>3. Streams' \subseteq Streams \cup {r}
  BY DEF Streams
<1>4. IsFiniteSet(Streams)
  BY RequestsAssumption, FS_Subset DEF Streams
<1>5. CASE q.step \in HasStream /\ req[r].step \notin HasStream
  <2>1. Cardinality(Streams \cup {r}) = Cardinality(Streams) + 1 /\ IsFiniteSet(Streams \cup {r})
    BY <1>4, <1>5, FS_AddElement DEF Streams
  <2>2. Cardinality(Streams) \in Nat /\ Cardinality(Streams) < MaxStreams
    BY <1>4, <1>5, FS_CardinalityType
  <2>3. Cardinality(Streams') <= Cardinality(Streams \cup {r}) /\ IsFiniteSet(Streams')
    BY <1>3, <2>1, FS_Subset
  <2>4. Cardinality(Streams') \in Nat
    BY <2>3, FS_CardinalityType
  <2> QED
    BY <1>2, <2>1, <2>2, <2>3, <2>4, RequestsAssumption
<1>6. CASE ~(q.step \in HasStream /\ req[r].step \notin HasStream)
  <2>1. Streams' \subseteq Streams
    BY <1>3, <1>6 DEF Streams
  <2>2. Cardinality(Streams) \in Nat
    BY <1>4, FS_CardinalityType
  <2>3. Cardinality(Streams') <= Cardinality(Streams) /\ IsFiniteSet(Streams')
    BY <1>4, <2>1, FS_Subset
  <2>4. Cardinality(Streams') \in Nat
    BY <2>3, FS_CardinalityType
  <2> QED
    BY <1>2, <2>2, <2>3, <2>4, RequestsAssumption
<1> QED
  BY <1>5, <1>6

\* A request moves on, well formed, within the connection's streams.
Moves(r) ==
  \E q : /\ Good(q)
         /\ req' = [req EXCEPT ![r] = q]
         /\ q.step \in HasStream => req[r].step \in HasStream \/ Cardinality(Streams) < MaxStreams

LEMMA IdleIsGood == Good(Idle)
BY DEF Good, Idle, Request, Travels, Arrived, OnItsWay, Waiting, HasStream, Headers, Modes, Answers,
       Nowhere, None

\* What lets the browser in goes no further than the port.
LEMMA EnteringMoves ==
  ASSUME RequestsIInv, NEW r \in Reqs, NEW b \in Browsers, NEW app \in Apps, NEW upgrade \in BOOLEAN,
         \/ forward(r, b, app, upgrade) \/ handle_request(r, b, app, upgrade)
         \/ forward_loopback(r, b, app, upgrade)
  PROVE  Moves(r) /\ UNCHANGED guest
<1> DEFINE q(h) == [Idle EXCEPT !.step = "lookup", !.target = app, !.upgrade = upgrade,
                                !.headers = h, !.offered = Offers(config, app)]
<1>1. ASSUME NEW h \in SUBSET {"credential", "claimed-user"}, Enter(r, app, upgrade, h)
      PROVE  Moves(r)
  <2>1. q(h) \in Request
    BY DEF Idle, Request, Waiting, HasStream, Headers, Modes, Answers, Nowhere, None, Offers
  <2>2. /\ q(h).step = "lookup" /\ q(h).at = Nowhere /\ q(h).headers = h
        /\ q(h).target = app /\ q(h).offered = Offers(config, app)
    BY DEF Idle
  <2>3. Good(q(h))
    BY <2>1, <2>2 DEF Good, Travels, Arrived, OnItsWay
  <2>4. req' = [req EXCEPT ![r] = q(h)]
    BY <1>1 DEF Enter
  <2>5. q(h).step \notin HasStream
    BY <2>2 DEF HasStream
  <2> HIDE DEF q
  <2> QED
    BY <2>3, <2>4, <2>5 DEF Moves
<1>2. CASE forward(r, b, app, upgrade)
  <2>1. scrub(Sent) \in SUBSET {"credential", "claimed-user"}
    BY <1>2 DEF forward, scrub, Sent, ReverseKinds
  <2> QED
    BY <1>1, <1>2, <2>1 DEF forward
<1>3. CASE handle_request(r, b, app, upgrade)
  <2>1. Sent \in SUBSET {"credential", "claimed-user"}
    BY <1>3 DEF handle_request, Sent
  <2> QED
    BY <1>1, <1>3, <2>1 DEF handle_request
<1>4. CASE forward_loopback(r, b, app, upgrade)
  <2>1. /\ strip_cookies(Sent) \in SUBSET {"credential", "claimed-user"}
        /\ strip_cookies({}) \in SUBSET {"credential", "claimed-user"}
    BY <1>4 DEF forward_loopback, Sent, strip_cookies
  <2> QED
    BY <1>1, <1>4, <2>1 DEF forward_loopback
<1>5. UNCHANGED guest
  BY DEF forward, handle_request, forward_loopback
<1> QED
  BY <1>2, <1>3, <1>4, <1>5

\* What goes to the host node gets there under its rules, and the app gets it
\* as the host node's proxy, or the guest's tunnel, leaves it.
LEMMA DeliveredIsClean ==
  ASSUME RequestsIInv, NEW r \in Reqs, req[r].step \in {"accepted", "tunnelled"}
  PROVE  /\ Delivered(r) \in SUBSET Headers
         /\ Delivered(r) \cap {"cookie", "foreign-cookie", "credential"} = {}
         /\ Mode = "reverse-proxy" =>
              Delivered(r) \cap {"user", "claimed-user"} = {h \in {"user"} : userId}
<1>1. /\ req[r].headers \in SUBSET Headers
      /\ req[r].headers \cap {"cookie", "foreign-cookie", "user"} = {}
  BY DEF RequestsIInv, Good, Travels, OnItsWay, Request
<1>2. CASE Mode = "reverse-proxy"
  <2>1. Delivered(r) = ((req[r].headers \ {"credential"}) \ {"claimed-user"})
                         \cup (IF userId THEN {"user"} ELSE {})
    BY <1>2 DEF Delivered, inject_identity, strip_hop_by_hop_headers
  <2> QED
    BY <1>1, <2>1 DEF Headers
<1>3. CASE Mode # "reverse-proxy"
  <2>1. Delivered(r) \in {{}, req[r].headers \ {"credential"}}
    BY <1>3 DEF Delivered, strip_hop_by_hop_headers
  <2> QED
    BY <1>1, <1>3, <2>1
<1> QED
  BY <1>2, <1>3

LEMMA DeliveryMoves ==
  ASSUME RequestsIInv, NEW r \in Reqs, forward_to_upstream(r) \/ open_tunnel(r)
  PROVE  Moves(r) /\ UNCHANGED guest
<1> DEFINE q == [req[r] EXCEPT !.step = "connected", !.at = req[r].target,
                               !.headers = Delivered(r), !.frozen = "absent"]
<1>1. req[r].step \in {"accepted", "tunnelled"} /\ req[r].offered
  BY DEF forward_to_upstream, open_tunnel, RequestsIInv, Good, Travels
<1>2. q \in Request
  <2>1. Delivered(r) \in SUBSET Headers /\ req[r] \in Request
    BY <1>1, DeliveredIsClean DEF RequestsIInv
  <2> HIDE DEF Delivered
  <2> QED
    BY <2>1 DEF Request, HasStream, Modes
<1>3. /\ q.step = "connected" /\ q.headers = Delivered(r) /\ q.offered
  BY <1>1 DEF RequestsIInv, Request
<1>4. Good(q)
  BY <1>1, <1>2, <1>3, DeliveredIsClean DEF Good, Travels, Arrived, OnItsWay, ThereAlready
<1>5. req' = [req EXCEPT ![r] = q]
  BY DEF forward_to_upstream, open_tunnel, Deliver, RequestsIInv
<1>6. req[r].step \in HasStream
  BY <1>1 DEF HasStream
<1> HIDE DEF q
<1> QED
  BY <1>4, <1>5, <1>6 DEF Moves, forward_to_upstream, open_tunnel

\* The steps that change where a request is, and what the host node froze.
LEMMA ProgressMoves ==
  ASSUME RequestsIInv, NEW r \in Reqs,
         \/ restore_guest_node(r) \/ open_stream(r) \/ accept_stream(r) \/ tunnel_opened(r)
         \/ switch_protocols(r)
  PROVE  Moves(r) /\ UNCHANGED guest
<1> USE DEF RequestsIInv
<1>0. Good(req[r]) /\ req[r] \in Request
  OBVIOUS
<1>1. CASE open_stream(r) \/ (restore_guest_node(r) /\ share = "live") \/ switch_protocols(r)
  <2>1. PICK t \in {"open", "opened", "relay"} :
          /\ req' = [req EXCEPT ![r].step = t]
          /\ t = "open" => req[r].step = "lookup"
          /\ t = "opened" => req[r].step = "open" /\ Cardinality(Streams) < MaxStreams
          /\ t = "relay" => req[r].step = "answered"
    BY <1>1 DEF open_stream, restore_guest_node, switch_protocols, Step
  <2> DEFINE q == [req[r] EXCEPT !.step = t]
  <2>2. q \in Request
    BY <1>0 DEF Request, Waiting, HasStream
  <2>3. /\ q.step = t /\ q.at = req[r].at /\ q.headers = req[r].headers /\ q.offered = req[r].offered
        /\ q.target = req[r].target
    BY <1>0 DEF Request
  <2>4. Good(q)
    BY <1>0, <2>1, <2>2, <2>3 DEF Good, Travels, Arrived, OnItsWay, ThereAlready
  <2>5. req' = [req EXCEPT ![r] = q]
    BY <2>1
  <2>6. q.step \in HasStream => req[r].step \in HasStream \/ Cardinality(Streams) < MaxStreams
    BY <2>1, <2>3 DEF HasStream
  <2> HIDE DEF q
  <2> QED
    BY <1>1, <2>4, <2>5, <2>6 DEF Moves, open_stream, restore_guest_node, switch_protocols
<1>2. CASE restore_guest_node(r) /\ share # "live"
  <2>1. Idle.step \notin HasStream
    BY DEF Idle, HasStream
  <2> QED
    BY <1>2, <2>1, IdleIsGood DEF restore_guest_node, Moves
<1>3. CASE accept_stream(r)
  <2> DEFINE f == IF req[r].target \in Apps THEN config[req[r].target] ELSE "absent"
             q == [req[r] EXCEPT !.step = "accepted", !.frozen = f]
  <2>1. f \in Modes
    BY DEF Configs, Modes
  <2>2. q \in Request
    BY <1>0, <2>1 DEF Request, HasStream
  <2>3. /\ q.step = "accepted" /\ q.at = req[r].at /\ q.headers = req[r].headers
        /\ q.offered = req[r].offered /\ q.frozen = f
    BY <1>0 DEF Request
  <2>4. f = Mode => Offers(config, req[r].target)
    BY DEF Mode, Offers
  <2>5. Good(q)
    BY <1>0, <1>3, <2>2, <2>3, <2>4 DEF accept_stream, Good, Travels, Arrived, OnItsWay, ThereAlready
  <2>6. req' = [req EXCEPT ![r] = q]
    BY <1>3 DEF accept_stream
  <2>7. req[r].step \in HasStream
    BY <1>3 DEF accept_stream, HasStream
  <2> HIDE DEF q, f
  <2> QED
    BY <1>3, <2>5, <2>6, <2>7 DEF Moves, accept_stream
<1>4. CASE tunnel_opened(r)
  <2> DEFINE q == [req[r] EXCEPT !.step = "tunnelled", !.frozen = "absent"]
  <2>1. q \in Request
    BY <1>0 DEF Request, HasStream, Modes
  <2>2. /\ q.step = "tunnelled" /\ q.at = req[r].at /\ q.headers = req[r].headers
        /\ q.offered = req[r].offered
    BY <1>0 DEF Request
  <2>3. Good(q)
    BY <1>0, <1>4, <2>1, <2>2 DEF tunnel_opened, Good, Travels, Arrived, OnItsWay
  <2>4. req' = [req EXCEPT ![r] = q]
    BY <1>4 DEF tunnel_opened
  <2>5. req[r].step \in HasStream
    BY <1>4 DEF tunnel_opened, HasStream
  <2> HIDE DEF q
  <2> QED
    BY <1>4, <2>3, <2>4, <2>5 DEF Moves, tunnel_opened
<1> QED
  BY <1>1, <1>2, <1>3, <1>4

\* An answer from the host node: the request stays where it is, and what it
\* carried with it.
LEMMA AnswerMoves ==
  ASSUME RequestsIInv, NEW r \in Reqs, refuse(r) \/ unreachable(r) \/ upstream_answers(r)
  PROVE  Moves(r) /\ UNCHANGED guest
<1> USE DEF RequestsIInv
<1>0. Good(req[r]) /\ req[r] \in Request
  OBVIOUS
<1>1. PICK a \in Answers : Answered(r, a)
  BY DEF refuse, unreachable, upstream_answers, Answers
<1>2. req[r].step \in {"accepted", "connected"}
  BY DEF refuse, unreachable, upstream_answers
<1> DEFINE q == [req[r] EXCEPT !.step = "answered", !.answer = a, !.frozen = "absent"]
<1>3. q \in Request
  BY <1>0 DEF Request, HasStream, Modes
<1>4. q.step = "answered" /\ q.at = req[r].at /\ q.headers = req[r].headers /\ q.offered = req[r].offered
  BY <1>0 DEF Request
<1>5. Good(q)
  BY <1>0, <1>2, <1>3, <1>4 DEF Good, Travels, Arrived, OnItsWay, ThereAlready
<1>6. req' = [req EXCEPT ![r] = q]
  BY <1>1 DEF Answered
<1>7. req[r].step \in HasStream
  BY <1>2 DEF HasStream
<1> HIDE DEF q
<1> QED
  BY <1>5, <1>6, <1>7 DEF Moves, refuse, unreachable, upstream_answers

\* The end of a request, and what goes out from this device.
LEMMA EndMoves ==
  ASSUME RequestsIInv, NEW r \in Reqs,
         \/ pass_on(r) \/ relay_ends(r) \/ browser_gone(r) \/ stream_finished(r)
         \/ answered_directly(r) \/ unavailable(r)
         \/ \E b \in Browsers, t \in Apps \cup {Elsewhere} : go_direct(r, b, t)
  PROVE  Moves(r)
<1> USE DEF RequestsIInv
<1>1. CASE stream_finished(r) \/ answered_directly(r) \/ unavailable(r)
  <2>1. Idle.step \notin HasStream
    BY DEF Idle, HasStream
  <2> QED
    BY <1>1, <2>1, IdleIsGood DEF stream_finished, answered_directly, unavailable, Moves
<1>2. CASE pass_on(r) \/ relay_ends(r) \/ browser_gone(r)
  <2> DEFINE q == [Idle EXCEPT !.step = "closing", !.answer = req[r].answer]
  <2>1. q \in Request
    BY DEF Idle, Request, HasStream, Modes, Headers, Answers, Nowhere, None
  <2>2. q.step = "closing" /\ q.at = Nowhere
    BY DEF Idle
  <2>3. Good(q)
    BY <2>1, <2>2 DEF Good, Travels, Arrived, OnItsWay
  <2>4. req' = [req EXCEPT ![r] = q]
    BY <1>2 DEF pass_on, relay_ends, browser_gone, Close
  <2>5. req[r].step \in HasStream
    BY <1>2 DEF pass_on, relay_ends, browser_gone, HasStream
  <2> HIDE DEF q
  <2> QED
    BY <2>3, <2>4, <2>5 DEF Moves
<1>3. ASSUME NEW b \in Browsers, NEW t \in Apps \cup {Elsewhere}, go_direct(r, b, t)
      PROVE  Moves(r)
  <2> DEFINE q == [Idle EXCEPT !.step = "direct", !.target = t, !.at = Elsewhere,
                               !.headers = strip_hop_by_hop_headers(Sent)]
  <2>1. strip_hop_by_hop_headers(Sent) = {}
    BY <1>3 DEF go_direct, Sent, strip_hop_by_hop_headers
  <2>2. q \in Request
    BY <2>1 DEF Idle, Request, Waiting, HasStream, Modes, Headers, Answers, Nowhere, None
  <2>3. q.step = "direct" /\ q.at = Elsewhere /\ q.headers = {}
    BY <2>1 DEF Idle
  <2>4. Elsewhere \notin Apps
    BY AppsAssumption DEF Elsewhere
  <2>5. Good(q)
    BY <2>2, <2>3, <2>4 DEF Good, Travels, Arrived, OnItsWay, ThereAlready
  <2>6. req' = [req EXCEPT ![r] = q]
    BY <1>3 DEF go_direct
  <2>7. q.step \notin HasStream
    BY <2>3 DEF HasStream
  <2> HIDE DEF q
  <2> QED
    BY <2>5, <2>6, <2>7 DEF Moves
<1> QED
  BY <1>1, <1>2, <1>3

\* A reload changes no request but for what was offered since it came in.
LEMMA ReloadKeepsGood ==
  ASSUME RequestsIInv, NEW c \in Configs, reload(c), NEW r \in Reqs
  PROVE  Good(req[r])' /\ req'[r].step = req[r].step
<1> USE DEF RequestsIInv
<1>0. Good(req[r]) /\ req[r] \in Request
  OBVIOUS
<1> DEFINE o == req[r].step # "idle" /\ (req[r].offered \/ Offers(c, req[r].target))
           q == [req[r] EXCEPT !.offered = o]
<1>1. q \in Request
  BY <1>0 DEF Request, Offers
<1>2. /\ q.step = req[r].step /\ q.at = req[r].at /\ q.headers = req[r].headers
      /\ q.target = req[r].target /\ q.frozen = req[r].frozen /\ q.offered = o
  BY <1>0 DEF Request
<1>3. req'[r] = q /\ config' = c /\ UNCHANGED <<kind, userId>>
  BY DEF reload
<1>4. o <=> req[r].step # "idle" /\ (req[r].offered \/ Offers(c, req[r].target))
  OBVIOUS
<1>5. Mode' = Mode
  BY <1>3 DEF Mode
<1>6. Offers(config, req[r].target)' <=> Offers(c, q.target)
  BY <1>2, <1>3, <1>5 DEF Offers
<1> HIDE DEF q, o
<1>7. Travels(req[r])'
  BY <1>0, <1>2, <1>3, <1>4, <1>5, <1>6 DEF Good, Travels, OnItsWay
<1>8. Arrived(req[r])'
  BY <1>0, <1>2, <1>3, <1>4, <1>5 DEF Good, Arrived, ThereAlready
<1> QED
  BY <1>1, <1>2, <1>3, <1>7, <1>8 DEF Good, Request

LEMMA RequestsIInvPreserved ==
  ASSUME RequestsIInv, [RequestsNext]_vars
  PROVE  RequestsIInv'
<1>1. PairingInv'
  BY RequestsPair, PairingInvPreserved DEF RequestsIInv
<1> DEFINE Env == /\ kind \in Kinds /\ userId \in BOOLEAN /\ share \in {"live", "gone"}
                  /\ config \in Configs /\ list \in Configs /\ refreshing \in BOOLEAN
           Kept == /\ req' \in [Reqs -> Request]
                   /\ (\A s \in Reqs : Good(req[s]))'
                   /\ (Cardinality(Streams) <= MaxStreams)'
<1>2. ASSUME Env', Kept
      PROVE  RequestsIInv'
  BY <1>1, <1>2 DEF RequestsIInv
<1>3. ASSUME NEW r \in Reqs, Moves(r), UNCHANGED <<kind, userId, config>>
      PROVE  Kept
  <2>1. PICK q : /\ Good(q)
                 /\ req' = [req EXCEPT ![r] = q]
                 /\ q.step \in HasStream => req[r].step \in HasStream \/ Cardinality(Streams) < MaxStreams
    BY <1>3 DEF Moves
  <2>2. q \in Request
    BY <2>1 DEF Good
  <2>3. req' \in [Reqs -> Request]
    BY <2>1, <2>2 DEF RequestsIInv
  <2>4. UNCHANGED <<kind, userId, config>>
    BY <1>3
  <2> HIDE DEF Kept
  <2>5. /\ (\A s \in Reqs : Good(req[s]))'
        /\ (Cardinality(Streams) <= MaxStreams)'
    BY <2>1, <2>4, OneRequestMoves
  <2> QED
    BY <2>3, <2>5 DEF Kept
<1>4. ASSUME NEW r \in Reqs, Moves(r), UNCHANGED guest
      PROVE  RequestsIInv'
  <2>1. UNCHANGED <<kind, userId, config>> /\ Env'
    BY <1>4 DEF guest, RequestsIInv
  <2> QED
    BY <1>2, <1>3, <1>4, <2>1
<1>5. ASSUME NEW r \in Reqs, pass_on(r)
      PROVE  RequestsIInv'
  <2>1. UNCHANGED <<kind, userId, config>> /\ Env'
    BY <1>5 DEF pass_on, RequestsIInv
  <2>2. Moves(r)
    BY <1>5, EndMoves
  <2> QED
    BY <1>2, <1>3, <2>1, <2>2
<1>6. ASSUME NEW r \in Reqs, Serves(r) \/ unavailable(r) \/ browser_gone(r)
      PROVE  RequestsIInv'
  <2>1. CASE \/ relay_ends(r) \/ browser_gone(r) \/ stream_finished(r) \/ answered_directly(r)
             \/ unavailable(r)
    <3>1. UNCHANGED guest
      BY <2>1 DEF relay_ends, browser_gone, stream_finished, answered_directly, unavailable
    <3> QED
      BY <1>4, <2>1, <3>1, EndMoves
  <2> QED
    BY <1>4, <1>5, <1>6, <2>1, ProgressMoves, DeliveryMoves, AnswerMoves DEF Serves
<1>7. ASSUME NEW r \in Reqs, NEW b \in Browsers, NEW app \in Apps, NEW upgrade \in BOOLEAN,
             \/ forward(r, b, app, upgrade) \/ handle_request(r, b, app, upgrade)
             \/ forward_loopback(r, b, app, upgrade)
      PROVE  RequestsIInv'
  BY <1>4, <1>7, EnteringMoves
<1>8. ASSUME NEW r \in Reqs, NEW b \in Browsers, NEW t \in Apps \cup {Elsewhere}, go_direct(r, b, t)
      PROVE  RequestsIInv'
  <2>1. UNCHANGED guest
    BY <1>8 DEF go_direct
  <2> QED
    BY <1>4, <1>8, <2>1, EndMoves
<1>9. ASSUME NEW c \in Configs, reload(c)
      PROVE  RequestsIInv'
  <2>1. /\ Env' /\ req' = [r \in Reqs |-> req'[r]]
    BY <1>9 DEF reload, RequestsIInv
  <2>2. \A r \in Reqs : Good(req[r])' /\ req'[r].step = req[r].step
    BY <1>9, ReloadKeepsGood
  <2>3. \A r \in Reqs : req'[r] \in Request
    BY <2>2 DEF Good, Request
  <2>4. Streams' = Streams
    BY <2>2 DEF Streams
  <2> QED
    BY <1>2, <2>1, <2>2, <2>3, <2>4 DEF RequestsIInv
<1>10. CASE client_exits
  <2>1. Env' /\ req' = [r \in Reqs |-> Idle] /\ UNCHANGED <<kind, userId, config>>
    BY <1>10 DEF client_exits, RequestsIInv
  <2>2. Good(Idle)' /\ Idle \in Request
    BY <2>1, IdleIsGood DEF Good, Travels, Arrived, Mode, Offers, Idle, OnItsWay, Request
  <2>3. Streams' = {}
    BY <2>1 DEF Streams, Idle, HasStream
  <2>4. (Cardinality(Streams) <= MaxStreams)'
    BY <2>3, FS_EmptySet, RequestsAssumption
  <2>5. \A r \in Reqs : req'[r] = Idle
    BY <2>1
  <2>6. (\A r \in Reqs : Good(req[r]))'
    BY <2>2, <2>5 DEF Good, Travels, Arrived, Request
  <2> QED
    BY <1>2, <2>1, <2>2, <2>4, <2>6
<1>11. CASE refresh \/ refresh_failed \/ share_ends \/ Pairs \/ UNCHANGED vars
  <2>1. Env' /\ UNCHANGED <<kind, userId, config, req>>
    BY <1>11 DEF refresh, refresh_failed, share_ends, Pairs, vars, requests, RequestsIInv
  <2>2. Streams' = Streams
    BY <2>1 DEF Streams
  <2>3. (\A r \in Reqs : Good(req[r]))'
    BY <2>1 DEF RequestsIInv, Good, Travels, Arrived, Mode, Offers
  <2> QED
    BY <1>2, <2>1, <2>2, <2>3 DEF RequestsIInv
<1> QED
  BY <1>6, <1>7, <1>8, <1>9, <1>10, <1>11 DEF RequestsNext

\* The inductive invariant of the pairing and the requests together.
THEOREM RequestsInvariant == RequestsSpec => []RequestsIInv
<1>1. RequestsInit => RequestsIInv
  <2> SUFFICES ASSUME RequestsInit
               PROVE  RequestsIInv
    OBVIOUS
  <2>1. PairingInv
    BY PairingAssumption DEF RequestsInit, PairingInit, PairingInv, PairingTypeOK, TokensPairOnce,
         PairedStaysPaired, Secrets
  <2>2. Streams = {}
    BY DEF RequestsInit, Streams, Idle, HasStream
  <2>3. Cardinality(Streams) <= MaxStreams
    BY <2>2, FS_EmptySet, RequestsAssumption
  <2>4. \A r \in Reqs : Good(req[r])
    BY IdleIsGood DEF RequestsInit
  <2>5. req \in [Reqs -> Request]
    BY IdleIsGood DEF RequestsInit, Good
  <2> QED
    BY <2>1, <2>3, <2>4, <2>5 DEF RequestsInit, RequestsIInv
<1> QED
  BY <1>1, RequestsIInvPreserved, PTL DEF RequestsSpec

\* However often and by whomever a pairing link is opened, its token gets one
\* browser in (pairing.rs, consume_token before the cookie is set).
THEOREM TokenPairsOnce == RequestsSpec => []TokensPairOnce
BY RequestsInvariant, PTL DEF RequestsIInv, PairingInv

\* The cookie of a paired browser is the one every later run of the proxy
\* demands (CookieIssuer::restore_or_mint saves the secret first).
THEOREM PairedForGood == RequestsSpec => []PairedStaysPaired
BY RequestsInvariant, PTL DEF RequestsIInv, PairingInv

\* Requests are well formed, never more than the connection carries, and what
\* lets a browser into a loopback port stays there.
THEOREM SecretsNeverLeave == RequestsSpec => []RequestsInv
<1>1. RequestsIInv => RequestsInv
  BY DEF RequestsIInv, PairingInv, RequestsInv, RequestsTypeOK, SecretsStay, Good, Arrived, Request
<1> QED
  BY <1>1, RequestsInvariant, PTL

\* An app gets a request through the host node only if the host node shared it
\* in that way at some moment since the request came in, whatever was reloaded.
THEOREM ReachedWhenShared == RequestsSpec => []SharedWhenAsked
<1>1. RequestsIInv => SharedWhenAsked
  BY AppsAssumption DEF RequestsIInv, SharedWhenAsked, Good, Arrived, Nowhere
<1> QED
  BY <1>1, RequestsInvariant, PTL

\* The identity an app is told is the host node's, never the page's.
THEOREM IdentityIsTrue == RequestsSpec => []IdentityTrue
<1>1. RequestsIInv => IdentityTrue
  BY AppsAssumption DEF RequestsIInv, IdentityTrue, Good, Arrived, Nowhere
<1> QED
  BY <1>1, RequestsInvariant, PTL
=============================================================================
