------------------------------ MODULE StateDb ------------------------------
(***************************************************************************)
(* The membership tables of a share's state.db (waserver/src/storage.rs):  *)
(* the invites the operator minted and the guest nodes they were redeemed  *)
(* into.  Each method of StateDb takes the connection's mutex and runs one *)
(* statement or one IMMEDIATE transaction, so each is one action here.     *)
(*                                                                         *)
(* A table is a set of rows.  The UNIQUE and PRIMARY KEY constraints of    *)
(* the schema are not built into the actions: KeysUnique shows they never  *)
(* fire.  An invite row is keyed by its secret (SHA-256 is taken to be     *)
(* injective); a guest refers to its invite by that secret.  Names, and    *)
(* the timestamps nothing but `status` reads (created_at, activated_at,    *)
(* last_seen_at), are left out; consumed_at and revoked_at are kept as     *)
(* "is it set".                                                            *)
(*                                                                         *)
(* A definition named after another with a suffix (revoke_guest_deletes)   *)
(* is that definition with a plausible mistake in it.  It is used by no    *)
(* specification: put in the other's place it must break the property that *)
(* PROJECT.json names with it.                                             *)
(***************************************************************************)
EXTENDS Naturals, FiniteSets

CONSTANTS Peers,           \* transport identities (iroh endpoint IDs)
          Secrets,         \* invite secrets the host's random source yields
          Users,           \* user IDs an operator may put in an invite
          InviteValidity,  \* INVITE_VALIDITY, in clock ticks
          MaxTime          \* bound on the wall clock

ASSUME ValidityAssumption == InviteValidity \in Nat
ASSUME TimeAssumption == MaxTime \in Nat

VARIABLES invites,  \* table invites
          guests,   \* table guests
          clock,    \* chrono::Utc::now()
          grants,   \* history: every <<secret, peer>> that was ever redeemed
          banned    \* history: every peer that was ever revoked

dbVars == <<invites, guests, clock, grants, banned>>

InviteRow == [secret : Secrets, user : Users, expires_at : Nat, consumed : BOOLEAN]
GuestRow  == [number : Nat, peer : Peers, user : Users, invite : Secrets,
              revoked : BOOLEAN]

DbTypeOK ==
  /\ invites \subseteq InviteRow
  /\ guests \subseteq GuestRow
  /\ clock \in Nat
  /\ grants \subseteq Secrets \X Peers
  /\ banned \subseteq Peers

DbInit ==
  /\ invites = {}
  /\ guests = {}
  /\ clock = 0
  /\ grants = {}
  /\ banned = {}

----------------------------------------------------------------------------
(***************************************************************************)
(* Queries.                                                                *)
(***************************************************************************)

\* The guest numbers in use: how the CLI and the handlers name a row.
Numbers == {g.number : g \in guests}

guest_by_peer(p) == {g \in guests : g.peer = p}

\* The rowid SQLite gives to an INSERT into a table whose INTEGER PRIMARY KEY
\* is not AUTOINCREMENT: one more than the largest in use, 1 when there is none.
\* The number of the newest guest is therefore used again once that guest left.
NextNumber ==
  {n \in {m + 1 : m \in {0} \cup Numbers} :
      \A g \in guests : g.number < n}

Redemption_by_invite_only(s, p) ==
  IF \E i \in invites : i.secret = s /\ i.expires_at <= clock THEN "InviteExpired"
  ELSE IF \E i \in invites : i.secret = s /\ ~i.consumed /\ guest_by_peer(p) = {}
  THEN "Redeemed"
  ELSE "Activated"

\* The outcome of redeem_invite, in the order the transaction checks: the
\* peer's own row first, then the invite's.
Redemption(s, p) ==
  LET existing == guest_by_peer(p)
      invite   == {i \in invites : i.secret = s}
  IN IF existing # {}
     THEN IF \E g \in existing : g.revoked THEN "Revoked"
          ELSE IF \E g \in existing : g.invite = s THEN "Activated"
          ELSE "AlreadyGuest"
     ELSE IF invite = {} THEN "InviteUnknown"
     ELSE IF \E i \in invite : i.consumed THEN "InviteConsumed"
     ELSE IF \E i \in invite : i.expires_at <= clock THEN "InviteExpired"
     ELSE "Redeemed"

----------------------------------------------------------------------------
(***************************************************************************)
(* Methods that change the tables.                                         *)
(***************************************************************************)

create_invite_columns_swapped(s, u) ==
  /\ \A i \in invites : i.secret # s
  /\ invites' = invites \cup {[secret |-> u, user |-> s, expires_at |-> clock,
                               consumed |-> FALSE]}
  /\ UNCHANGED <<guests, clock, grants, banned>>

\* The secret is 16 random bytes: one that no invite has yet.
create_invite(s, u) ==
  /\ \A i \in invites : i.secret # s
  /\ invites' = invites \cup {[secret |-> s, user |-> u,
                               expires_at |-> clock + InviteValidity,
                               consumed |-> FALSE]}
  /\ UNCHANGED <<guests, clock, grants, banned>>

redeem_invite_not_consumed(s, p) ==
  /\ Redemption(s, p) = "Redeemed"
  /\ \E i \in invites, n \in NextNumber :
       /\ i.secret = s
       /\ guests' = guests \cup {[number |-> n, peer |-> p, user |-> i.user,
                                  invite |-> s, revoked |-> FALSE]}
  /\ grants' = grants \cup {<<s, p>>}
  /\ UNCHANGED <<invites, clock, banned>>

\* The transaction inserts the guest and consumes the invite, or answers
\* without writing.
redeem_invite(s, p) ==
  \/ /\ Redemption(s, p) = "Redeemed"
     /\ \E i \in invites, n \in NextNumber :
          /\ i.secret = s
          /\ guests' = guests \cup {[number |-> n, peer |-> p, user |-> i.user,
                                     invite |-> s, revoked |-> FALSE]}
          /\ invites' = (invites \ {i}) \cup {[i EXCEPT !.consumed = TRUE]}
     /\ grants' = grants \cup {<<s, p>>}
     /\ UNCHANGED <<clock, banned>>
  \/ /\ Redemption(s, p) # "Redeemed"
     /\ UNCHANGED dbVars

\* NoSuchGuest when no row has the number.
remove_guest(n) ==
  /\ guests' = {g \in guests : g.number # n}
  /\ UNCHANGED <<invites, clock, grants, banned>>

revoke_guest_deletes(n) ==
  /\ \E g \in guests : g.number = n
  /\ guests' = {g \in guests : g.number # n}
  /\ banned' = banned \cup {g.peer : g \in {h \in guests : h.number = n}}
  /\ UNCHANGED <<invites, clock, grants>>

revoke_guest_toggles(n) ==
  /\ \E g \in guests : g.number = n
  /\ guests' = {IF g.number = n THEN [g EXCEPT !.revoked = ~@] ELSE g : g \in guests}
  /\ banned' = banned \cup {g.peer : g \in {h \in guests : h.number = n}}
  /\ UNCHANGED <<invites, clock, grants>>

\* A second revocation is a no-op.
revoke_guest(n) ==
  /\ \E g \in guests : g.number = n
  /\ guests' = {IF g.number = n THEN [g EXCEPT !.revoked = TRUE] ELSE g : g \in guests}
  /\ banned' = banned \cup {g.peer : g \in {h \in guests : h.number = n}}
  /\ UNCHANGED <<invites, clock, grants>>

Tick ==
  /\ clock < MaxTime
  /\ clock' = clock + 1
  /\ UNCHANGED <<invites, guests, grants, banned>>

DbNext ==
  \/ \E s \in Secrets, u \in Users : create_invite(s, u)
  \/ \E s \in Secrets, p \in Peers : redeem_invite(s, p)
  \/ \E n \in Numbers : remove_guest(n)
  \/ \E n \in Numbers : revoke_guest(n)
  \/ Tick

DbSpec == DbInit /\ [][DbNext]_dbVars

----------------------------------------------------------------------------
(***************************************************************************)
(* Properties.                                                             *)
(***************************************************************************)

\* The PRIMARY KEY and UNIQUE constraints of the two tables never fire: two
\* guests differ in number and in peer_id, two invites in secret_hash.  Numbers
\* are re-used, so this is about max + 1 being free whatever was removed.
KeysUnique ==
  /\ \A g, h \in guests : (g.number = h.number \/ g.peer = h.peer) => g = h
  /\ \A i, j \in invites : i.secret = j.secret => i = j

\* redeem_invite: an invite binds one peer, ever - also when the guest it bound
\* has left or was revoked, and when two peers redeem it at the same time.
InviteBindsOne ==
  \A a, b \in grants : a[1] = b[1] => a = b

\* redeem_invite: inserting the guest and consuming the invite is one
\* transaction.  An invite is consumed exactly when it was redeemed.
ConsumedIffRedeemed ==
  \A i \in invites : i.consumed <=> \E a \in grants : a[1] = i.secret

\* Only recorded invites are redeemed; with it the tables' properties are
\* preserved by every call.
GrantsRecorded ==
  \A a \in grants : \E i \in invites : i.secret = a[1]

\* redeem_invite: a guest's user ID, which the apps are told, is the one the
\* operator put into the invite this very peer redeemed.
IdentityFromInvite ==
  \A g \in guests :
    /\ <<g.invite, g.peer>> \in grants
    /\ \E i \in invites : i.secret = g.invite /\ i.user = g.user

\* The tables are consistent whatever is called: keys are unique, an invite is
\* consumed exactly when a guest was bound by it, and a guest's identity is the
\* one its invite carries.
DbInv ==
  /\ KeysUnique
  /\ InviteBindsOne
  /\ ConsumedIffRedeemed
  /\ GrantsRecorded
  /\ IdentityFromInvite

\* redeem_invite: a guest whose activation response got lost and that posts the
\* same secret again is told it is activated, however late the retry comes.
RetryAnswered ==
  \A g \in guests : ~g.revoked => Redemption(g.invite, g.peer) = "Activated"

\* The tables implement the abstract membership of a share.
M == INSTANCE Membership WITH
       offers  <- {<<i.secret, i.user>> : i \in invites},
       spent   <- {i.secret : i \in {j \in invites : j.consumed}},
       members <- {<<g.peer, g.user>> : g \in guests},
       barred  <- {g.peer : g \in {h \in guests : h.revoked}}

\* Every method of StateDb is a step of the abstract membership, or none: in
\* particular nothing un-bars a member but forgetting it, nothing changes a
\* member's user ID, and no invite admits twice.
ImplementsMembership == M!MemSpec
=============================================================================
