SPECIFICATION RequestsLiveSpec
CONSTANTS
  Browsers = {b1, b2}
  Tokens = {k1}
  MaxSecrets = 2
  Apps = {a1}
  Kinds = {"host-routed", "per-app", "credential", "per-share", "loopback"}
  Reqs = {r1, r2}
  MaxStreams = 1
INVARIANTS RequestsInv SharedWhenAsked IdentityTrue TokensPairOnce PairedStaysPaired
PROPERTIES RequestsAnswered
