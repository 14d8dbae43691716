----------------------------- MODULE Membership -----------------------------
(***************************************************************************)
(* What a share promises about who may use it, without guest numbers,      *)
(* clocks, rows or connections: an operator offers one-time invitations    *)
(* that carry a user ID; a peer spends one to become a member under that   *)
(* user ID; a member may be barred, and may be forgotten.  A peer is a     *)
(* member at most once, and an offer that was spent stays spent.           *)
(***************************************************************************)
CONSTANTS Peers, Secrets, Users

VARIABLES offers,   \* <<secret, user>> of every invitation made
          spent,    \* the secrets that made somebody a member
          members,  \* <<peer, user>>
          barred    \* members that are shut out

memVars == <<offers, spent, members, barred>>

Member(p) == \E m \in members : m[1] = p

MemInit == offers = {} /\ spent = {} /\ members = {} /\ barred = {}

Offer(s, u) ==
  /\ \A o \in offers : o[1] # s
  /\ offers' = offers \cup {<<s, u>>}
  /\ UNCHANGED <<spent, members, barred>>

Admit(s, u, p) ==
  /\ <<s, u>> \in offers
  /\ s \notin spent
  /\ ~Member(p)
  /\ spent' = spent \cup {s}
  /\ members' = members \cup {<<p, u>>}
  /\ UNCHANGED <<offers, barred>>

Bar(p) ==
  /\ Member(p)
  /\ barred' = barred \cup {p}
  /\ UNCHANGED <<offers, spent, members>>

Forget(p) ==
  /\ Member(p)
  /\ members' = {m \in members : m[1] # p}
  /\ barred' = barred \ {p}
  /\ UNCHANGED <<offers, spent>>

MemNext ==
  \/ \E s \in Secrets, u \in Users : Offer(s, u) \/ \E p \in Peers : Admit(s, u, p)
  \/ \E p \in Peers : Bar(p) \/ Forget(p)

MemSpec == MemInit /\ [][MemNext]_memVars
=============================================================================
