------------------------------- MODULE Pairing -------------------------------
(***************************************************************************)
(* Browser pairing (sdk/src/pairing.rs, and /pair in reverse_proxy.rs).    *)
(*                                                                         *)
(* The host-routed proxy demands a cookie of every browser.  Its value is  *)
(* a secret minted once and kept in the secret store; a browser gets it by *)
(* opening a link with a one-time token, which lives in the memory of the  *)
(* proxy that minted it.  After an update the app starts again before its  *)
(* old process exits.                                                      *)
(***************************************************************************)
EXTENDS Naturals, FiniteSets

CONSTANTS Browsers, Tokens, MaxSecrets

ASSUME PairingAssumption == IsFiniteSet(Browsers) /\ IsFiniteSet(Tokens) /\ MaxSecrets \in Nat \ {0}

VARIABLES secret,  \* browser_pairing_secret in the secret store, or 0
          minted,  \* secrets minted so far
          start,   \* what a start of the proxy has: a secret, 0 for none yet, or NoStart
          cookie,  \* the cookie the running proxy demands, 0 when it is down
          tokens,  \* each token: not minted yet, in the map or gone
          issued,  \* history: how often each token got a browser the cookie
          jar      \* the proxy's cookie in each browser, or 0

pairing == <<secret, minted, start, cookie, tokens, issued, jar>>

Secrets == 1 .. MaxSecrets
NoStart == MaxSecrets + 1

PairingTypeOK ==
  /\ {secret, cookie, minted} \subseteq {0} \cup Secrets
  /\ start \in {0, NoStart} \cup Secrets
  /\ tokens \in [Tokens -> {"none", "live", "expired", "gone"}]
  /\ issued \in [Tokens -> Nat]
  /\ jar \in [Browsers -> {0} \cup Secrets]

PairingInit ==
  /\ secret = 0 /\ minted = 0 /\ start = NoStart /\ cookie = 0
  /\ tokens = [k \in Tokens |-> "none"] /\ issued = [k \in Tokens |-> 0]
  /\ jar = [b \in Browsers |-> 0]

-----------------------------------------------------------------------------
\* RequiredCookie::is_presented_in
is_presented_in(b) == cookie # 0 /\ jar[b] = cookie

\* CookieIssuer::restore_or_mint reads the store, with the old process's proxy
\* running or not.  The client app starts one proxy at a time: of two first
\* starts at once the later one's secret would replace the other's.
restore ==
  /\ start = NoStart
  /\ start' = secret
  /\ UNCHANGED <<secret, minted, cookie, tokens, issued, jar>>

mint_unsaved ==
  /\ start = 0 /\ minted < MaxSecrets
  /\ minted' = minted + 1 /\ start' = minted'
  /\ UNCHANGED <<secret, cookie, tokens, issued, jar>>

\* The secret is saved before anybody gets it.
mint ==
  /\ start = 0 /\ minted < MaxSecrets
  /\ minted' = minted + 1 /\ secret' = minted' /\ start' = minted'
  /\ UNCHANGED <<cookie, tokens, issued, jar>>

\* start_host_routed_proxy binds the port, once no older proxy has it.
start_host_routed_proxy ==
  /\ start \in Secrets /\ cookie = 0
  /\ cookie' = start /\ start' = NoStart
  /\ UNCHANGED <<secret, minted, tokens, issued, jar>>

\* The secret store fails or the port is taken: start_proxy_patiently begins
\* again, with the store.
start_fails ==
  /\ start # NoStart
  /\ start' = NoStart
  /\ UNCHANGED <<secret, minted, cookie, tokens, issued, jar>>

\* HostRoutedProxy::browse_url.  Expired tokens go when the next is minted.
mint_token(k) ==
  /\ cookie # 0 /\ tokens[k] = "none"
  /\ tokens' = [j \in Tokens |-> IF j = k THEN "live"
                                 ELSE IF tokens[j] = "expired" THEN "gone" ELSE tokens[j]]
  /\ UNCHANGED <<secret, minted, start, cookie, issued, jar>>

token_expires(k) ==
  /\ tokens[k] = "live"
  /\ tokens' = [tokens EXCEPT ![k] = "expired"]
  /\ UNCHANGED <<secret, minted, start, cookie, issued, jar>>

consume_token_kept(k) == UNCHANGED tokens

\* Spent, whether it was still good or not.
consume_token(k) == tokens' = IF tokens[k] \in {"live", "expired"} THEN [tokens EXCEPT ![k] = "gone"] ELSE tokens

\* GET /pair?token=k.  A browser that has the cookie is redirected at once, and
\* the token stays as it is.
answer_pair(b, k) ==
  /\ cookie # 0
  /\ IF is_presented_in(b)
       THEN UNCHANGED <<tokens, issued, jar>>
       ELSE /\ consume_token(k)
            /\ IF tokens[k] = "live"
                 THEN jar' = [jar EXCEPT ![b] = cookie] /\ issued' = [issued EXCEPT ![k] = @ + 1]
                 ELSE UNCHANGED <<issued, jar>>
  /\ UNCHANGED <<secret, minted, start, cookie>>

\* A year is over, or the user clears the cookies.
cookie_forgotten(b) ==
  /\ jar[b] # 0
  /\ jar' = [jar EXCEPT ![b] = 0]
  /\ UNCHANGED <<secret, minted, start, cookie, tokens, issued>>

\* The tokens die with the proxy.
proxy_ends ==
  /\ cookie # 0
  /\ cookie' = 0
  /\ tokens' = [k \in Tokens |-> IF tokens[k] = "none" THEN "none" ELSE "gone"]
  /\ UNCHANGED <<secret, minted, start, issued, jar>>

-----------------------------------------------------------------------------
Starts == restore \/ mint \/ start_host_routed_proxy \/ start_fails

PairingNext ==
  \/ Starts \/ proxy_ends
  \/ \E k \in Tokens : mint_token(k) \/ token_expires(k)
  \/ \E b \in Browsers, k \in Tokens : answer_pair(b, k)
  \/ \E b \in Browsers : cookie_forgotten(b)

PairingSpec == PairingInit /\ [][PairingNext]_pairing

-----------------------------------------------------------------------------
(* Properties *)

\* However often a pairing link is opened, by whichever browsers and across
\* restarts of the proxy, its token gets at most one of them the cookie, and
\* it does so only once it can get no other one in.
TokensPairOnce == \A k \in Tokens : issued[k] <= 1 /\ (issued[k] = 1 => tokens[k] = "gone")

\* Paired browsers survive a restart: the cookie a browser was given is the one
\* every later run of the proxy demands.
PairedStaysPaired == \A b \in Browsers : jar[b] # 0 => jar[b] = secret /\ cookie \in {0, jar[b]}
=============================================================================
