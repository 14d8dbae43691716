--------------------------- MODULE StateDbProofs ---------------------------
(***************************************************************************)
(* What the membership tables guarantee under any sequence of calls, for   *)
(* any number of peers, invites and users.                                 *)
(***************************************************************************)
EXTENDS StateDb, TLAPS

\* What redeem_invite has checked when it writes.
LEMMA RedeemedMeans ==
  ASSUME NEW s, NEW p, Redemption(s, p) = "Redeemed"
  PROVE  /\ \A g \in guests : g.peer # p
         /\ \A i \in invites : i.secret = s => ~i.consumed
BY DEF Redemption, guest_by_peer

\* A redemption writes one guest row, under a number no row has, and replaces
\* the invite's row by a consumed one.
LEMMA RedeemWrites ==
  ASSUME DbTypeOK, NEW s \in Secrets, NEW p \in Peers,
         redeem_invite(s, p), Redemption(s, p) = "Redeemed"
  PROVE  \E i \in invites, n \in Nat :
           /\ i.secret = s
           /\ ~i.consumed
           /\ \A g \in guests : g.number # n /\ g.peer # p
           /\ guests' = guests \cup {[number |-> n, peer |-> p, user |-> i.user,
                                      invite |-> s, revoked |-> FALSE]}
           /\ invites' = (invites \ {i}) \cup {[i EXCEPT !.consumed = TRUE]}
           /\ grants' = grants \cup {<<s, p>>}
           /\ clock' = clock
           /\ banned' = banned
<1>1. PICK i \in invites, n \in NextNumber :
        /\ i.secret = s
        /\ guests' = guests \cup {[number |-> n, peer |-> p, user |-> i.user,
                                   invite |-> s, revoked |-> FALSE]}
        /\ invites' = (invites \ {i}) \cup {[i EXCEPT !.consumed = TRUE]}
        /\ grants' = grants \cup {<<s, p>>}
        /\ clock' = clock
        /\ banned' = banned
  BY DEF redeem_invite
<1>2. n \in Nat /\ \A g \in guests : g.number # n
  BY DEF NextNumber, Numbers, DbTypeOK, GuestRow
<1> QED
  BY <1>1, <1>2, RedeemedMeans

\* Every method keeps the rows of both tables well formed.
THEOREM DbTypeCorrect == DbSpec => []DbTypeOK
<1>1. DbInit => DbTypeOK
  BY DEF DbInit, DbTypeOK
<1>2. DbTypeOK /\ [DbNext]_dbVars => DbTypeOK'
  <2> SUFFICES ASSUME DbTypeOK, [DbNext]_dbVars
               PROVE  DbTypeOK'
    OBVIOUS
  <2> USE DEF DbTypeOK, InviteRow, GuestRow
  <2>1. ASSUME NEW s \in Secrets, NEW u \in Users, create_invite(s, u)
        PROVE  DbTypeOK'
    <3>1. [secret |-> s, user |-> u, expires_at |-> clock + InviteValidity,
           consumed |-> FALSE] \in InviteRow
      BY ValidityAssumption
    <3> QED
      BY <2>1, <3>1 DEF create_invite
  <2>2. ASSUME NEW s \in Secrets, NEW p \in Peers, redeem_invite(s, p)
        PROVE  DbTypeOK'
    <3>1. CASE Redemption(s, p) = "Redeemed"
      <4>1. PICK i \in invites, n \in Nat :
              /\ guests' = guests \cup {[number |-> n, peer |-> p, user |-> i.user,
                                         invite |-> s, revoked |-> FALSE]}
              /\ invites' = (invites \ {i}) \cup {[i EXCEPT !.consumed = TRUE]}
              /\ grants' = grants \cup {<<s, p>>}
              /\ clock' = clock
              /\ banned' = banned
        BY <2>2, <3>1, RedeemWrites
      <4>3. [number |-> n, peer |-> p, user |-> i.user, invite |-> s,
             revoked |-> FALSE] \in GuestRow
        OBVIOUS
      <4>4. [i EXCEPT !.consumed = TRUE] \in InviteRow
        OBVIOUS
      <4> HIDE DEF InviteRow, GuestRow
      <4>5. invites' \subseteq InviteRow
        BY <4>1, <4>4
      <4>6. guests' \subseteq GuestRow
        BY <4>1, <4>3
      <4>7. grants' \subseteq Secrets \X Peers
        BY <4>1
      <4> QED
        BY <4>1, <4>5, <4>6, <4>7
    <3>2. CASE Redemption(s, p) # "Redeemed"
      BY <2>2, <3>2 DEF redeem_invite, dbVars
    <3> QED
      BY <3>1, <3>2
  <2>3. ASSUME NEW n \in Numbers, remove_guest(n)
        PROVE  DbTypeOK'
    BY <2>3 DEF remove_guest
  <2>4. ASSUME NEW n \in Numbers, revoke_guest(n)
        PROVE  DbTypeOK'
    BY <2>4 DEF revoke_guest
  <2>5. CASE Tick
    BY <2>5 DEF Tick
  <2>6. CASE UNCHANGED dbVars
    BY <2>6 DEF dbVars
  <2> QED
    BY <2>1, <2>2, <2>3, <2>4, <2>5, <2>6 DEF DbNext
<1> QED
  BY <1>1, <1>2, PTL DEF DbSpec

\* The tables' properties - the schema's constraints never fire, an invite
\* binds one peer ever, consumption and redemption are one, a guest's identity
\* is its invite's - are preserved by every method.
LEMMA DbInvPreserved ==
  ASSUME DbTypeOK, DbInv, [DbNext]_dbVars
  PROVE  DbInv'
<1> USE DEF DbInv, KeysUnique, InviteBindsOne, ConsumedIffRedeemed, GrantsRecorded,
            IdentityFromInvite
<1>1. ASSUME NEW s \in Secrets, NEW u \in Users, create_invite(s, u)
      PROVE  DbInv'
  <2> DEFINE new == [secret |-> s, user |-> u,
                     expires_at |-> clock + InviteValidity, consumed |-> FALSE]
  <2>1. /\ invites' = invites \cup {new}
        /\ guests' = guests
        /\ grants' = grants
        /\ \A i \in invites : i.secret # s
        /\ new.secret = s /\ new.user = u /\ new.consumed = FALSE
    BY <1>1 DEF create_invite
  <2> HIDE DEF new
  <2> QED
    BY <2>1
<1>2. ASSUME NEW s \in Secrets, NEW p \in Peers, redeem_invite(s, p)
      PROVE  DbInv'
  <2>1. CASE Redemption(s, p) = "Redeemed"
    <3>1. PICK i \in invites, n \in Nat :
            /\ i.secret = s
            /\ ~i.consumed
            /\ \A g \in guests : g.number # n /\ g.peer # p
            /\ guests' = guests \cup {[number |-> n, peer |-> p, user |-> i.user,
                                       invite |-> s, revoked |-> FALSE]}
            /\ invites' = (invites \ {i}) \cup {[i EXCEPT !.consumed = TRUE]}
            /\ grants' = grants \cup {<<s, p>>}
      BY <1>2, <2>1, RedeemWrites
    <3> DEFINE g0 == [number |-> n, peer |-> p, user |-> i.user, invite |-> s,
                      revoked |-> FALSE]
               j  == [i EXCEPT !.consumed = TRUE]
    <3>2. g0.number = n /\ g0.peer = p /\ g0.user = i.user /\ g0.invite = s
      OBVIOUS
    <3>3. j.secret = s /\ j.user = i.user /\ j.consumed = TRUE
      BY <3>1 DEF DbTypeOK, InviteRow
    <3>4. /\ guests' = guests \cup {g0}
          /\ invites' = (invites \ {i}) \cup {j}
      BY <3>1
    <3>5. \A a \in grants : a[1] # s
      BY <3>1
    <3> HIDE DEF g0, j
    <3>6. KeysUnique'
      BY <3>1, <3>2, <3>3, <3>4
    <3>7. InviteBindsOne'
      BY <3>1, <3>5
    <3>8. ConsumedIffRedeemed'
      <4> SUFFICES ASSUME NEW k \in invites'
                   PROVE  k.consumed <=> \E a \in grants' : a[1] = k.secret
        OBVIOUS
      <4>1. CASE k = j
        <5>1. k.consumed
          BY <4>1, <3>3
        <5>2. <<s, p>> \in grants' /\ <<s, p>>[1] = k.secret
          BY <4>1, <3>1, <3>3
        <5> QED
          BY <5>1, <5>2
      <4>2. CASE k \in invites \ {i}
        <5>1. k.secret # s
          BY <4>2, <3>1
        <5> QED
          BY <5>1, <4>2, <3>1
      <4> QED
        BY <4>1, <4>2, <3>4
    <3>9. GrantsRecorded'
      BY <3>1, <3>3, <3>4
    <3>10. IdentityFromInvite'
      <4> SUFFICES ASSUME NEW g \in guests'
                   PROVE  /\ <<g.invite, g.peer>> \in grants'
                          /\ \E k \in invites' : k.secret = g.invite /\ k.user = g.user
        OBVIOUS
      <4>1. CASE g = g0
        BY <4>1, <3>1, <3>2, <3>3, <3>4
      <4>2. CASE g \in guests
        <5>1. <<g.invite, g.peer>> \in grants'
          BY <4>2, <3>1
        <5>2. PICK k \in invites : k.secret = g.invite /\ k.user = g.user
          BY <4>2
        <5>3. CASE k = i
          BY <5>1, <5>2, <5>3, <3>1, <3>3, <3>4
        <5>4. CASE k # i
          BY <5>1, <5>2, <5>4, <3>4
        <5> QED
          BY <5>3, <5>4
      <4> QED
        BY <4>1, <4>2, <3>4
    <3> QED
      BY <3>6, <3>7, <3>8, <3>9, <3>10
  <2>2. CASE Redemption(s, p) # "Redeemed"
    BY <1>2, <2>2 DEF redeem_invite, dbVars
  <2> QED
    BY <2>1, <2>2
<1>3. ASSUME NEW n \in Numbers, remove_guest(n)
      PROVE  DbInv'
  BY <1>3 DEF remove_guest
<1>4. ASSUME NEW n \in Numbers, revoke_guest(n)
      PROVE  DbInv'
  <2>1. \A h \in guests' : \E g \in guests :
          /\ h.number = g.number /\ h.peer = g.peer
          /\ h.user = g.user /\ h.invite = g.invite
          /\ h = IF g.number = n THEN [g EXCEPT !.revoked = TRUE] ELSE g
    BY <1>4 DEF revoke_guest, DbTypeOK, GuestRow
  <2>2. invites' = invites /\ grants' = grants
    BY <1>4 DEF revoke_guest
  <2>3. KeysUnique'
    <3>1. ASSUME NEW g \in guests', NEW h \in guests',
                 g.number = h.number \/ g.peer = h.peer
          PROVE  g = h
      <4> DEFINE Revoked(x) == IF x.number = n THEN [x EXCEPT !.revoked = TRUE] ELSE x
      <4>1. PICK a \in guests : a.number = g.number /\ a.peer = g.peer /\ g = Revoked(a)
        BY <2>1
      <4>2. PICK b \in guests : b.number = h.number /\ b.peer = h.peer /\ h = Revoked(b)
        BY <2>1
      <4> HIDE DEF Revoked
      <4> QED
        BY <3>1, <4>1, <4>2
    <3> QED
      BY <3>1, <2>2
  <2>4. IdentityFromInvite'
    <3> SUFFICES ASSUME NEW h \in guests'
                 PROVE  /\ <<h.invite, h.peer>> \in grants
                        /\ \E i \in invites : i.secret = h.invite /\ i.user = h.user
      BY <2>2
    <3>1. PICK g \in guests : /\ h.invite = g.invite /\ h.peer = g.peer
                              /\ h.user = g.user
      BY <2>1
    <3> QED
      BY <3>1
  <2>5. InviteBindsOne' /\ ConsumedIffRedeemed' /\ GrantsRecorded'
    BY <2>2
  <2> QED
    BY <2>3, <2>4, <2>5
<1>5. CASE Tick
  BY <1>5 DEF Tick
<1>6. CASE UNCHANGED dbVars
  BY <1>6 DEF dbVars
<1> QED
  BY <1>1, <1>2, <1>3, <1>4, <1>5, <1>6 DEF DbNext

\* The inductive invariant of the tables.
THEOREM DbInvariant == DbSpec => []DbInv
<1>1. DbInit => DbInv
  BY DEF DbInit, DbInv, KeysUnique, InviteBindsOne, ConsumedIffRedeemed, GrantsRecorded,
         IdentityFromInvite
<1>2. DbTypeOK /\ DbInv /\ [DbNext]_dbVars => DbInv'
  BY DbInvPreserved
<1> QED
  BY <1>1, <1>2, DbTypeCorrect, PTL DEF DbSpec

\* A retried activation is answered as the first one was, at any later time.
THEOREM RetryIsAnswered == DbSpec => []RetryAnswered
<1>1. DbInv => RetryAnswered
  BY DEF DbInv, KeysUnique, RetryAnswered, Redemption, guest_by_peer
<1> QED
  BY <1>1, DbInvariant, PTL

----------------------------------------------------------------------------
(***************************************************************************)
(* The tables implement the abstract membership.  The abstract variables   *)
(* are images of the tables; each method maps to one abstract action, and  *)
(* KeysUnique is what makes a row and its image correspond.                *)
(***************************************************************************)

LEMMA StepsImplementMembership ==
  ASSUME DbTypeOK, DbInv, [DbNext]_dbVars
  PROVE  [M!MemNext]_M!memVars
<1> DEFINE Offers  == {<<i.secret, i.user>> : i \in invites}
           Spent   == {i.secret : i \in {j \in invites : j.consumed}}
           Members == {<<g.peer, g.user>> : g \in guests}
           Barred  == {g.peer : g \in {h \in guests : h.revoked}}
<1>1. ASSUME NEW s \in Secrets, NEW u \in Users, create_invite(s, u)
      PROVE  M!Offer(s, u)
  <2> DEFINE new == [secret |-> s, user |-> u,
                     expires_at |-> clock + InviteValidity, consumed |-> FALSE]
  <2>1. /\ invites' = invites \cup {new}
        /\ guests' = guests
        /\ \A i \in invites : i.secret # s
        /\ new.secret = s /\ new.user = u /\ ~new.consumed
    BY <1>1 DEF create_invite
  <2> HIDE DEF new
  <2>2. Offers' = Offers \cup {<<s, u>>}
    BY <2>1
  <2>3. Spent' = Spent
    BY <2>1
  <2>4. Members' = Members /\ Barred' = Barred
    BY <2>1
  <2>5. \A o \in Offers : o[1] # s
    BY <2>1
  <2> QED
    BY <2>2, <2>3, <2>4, <2>5 DEF M!Offer
<1>2. ASSUME NEW s \in Secrets, NEW p \in Peers, redeem_invite(s, p),
             Redemption(s, p) = "Redeemed"
      PROVE  \E u \in Users : M!Admit(s, u, p)
  <2>1. PICK i \in invites, n \in Nat :
          /\ i.secret = s
          /\ ~i.consumed
          /\ \A g \in guests : g.number # n /\ g.peer # p
          /\ guests' = guests \cup {[number |-> n, peer |-> p, user |-> i.user,
                                     invite |-> s, revoked |-> FALSE]}
          /\ invites' = (invites \ {i}) \cup {[i EXCEPT !.consumed = TRUE]}
    BY <1>2, RedeemWrites
  <2> DEFINE g0 == [number |-> n, peer |-> p, user |-> i.user, invite |-> s,
                    revoked |-> FALSE]
             j  == [i EXCEPT !.consumed = TRUE]
  <2>2. g0.peer = p /\ g0.user = i.user /\ ~g0.revoked
    OBVIOUS
  <2>3. j.secret = s /\ j.user = i.user /\ j.consumed
    BY <2>1 DEF DbTypeOK, InviteRow
  <2>4. /\ guests' = guests \cup {g0}
        /\ invites' = (invites \ {i}) \cup {j}
    BY <2>1
  <2>5. i.user \in Users
    BY DEF DbTypeOK, InviteRow
  <2> HIDE DEF g0, j
  <2>6. Offers' = Offers
    BY <2>1, <2>3, <2>4
  <2>7. Spent' = Spent \cup {s}
    BY <2>1, <2>3, <2>4
  <2>8. Members' = Members \cup {<<p, i.user>>}
    BY <2>2, <2>4
  <2>9. Barred' = Barred
    BY <2>2, <2>4
  <2>10. <<s, i.user>> \in Offers
    BY <2>1
  <2>11. s \notin Spent
    BY <2>1 DEF DbInv, KeysUnique
  <2>12. \A m \in Members : m[1] # p
    BY <2>1
  <2>13. M!Admit(s, i.user, p)
    BY <2>6, <2>7, <2>8, <2>9, <2>10, <2>11, <2>12 DEF M!Admit, M!Member
  <2> QED
    BY <2>5, <2>13
<1>3. ASSUME NEW n \in Numbers, remove_guest(n)
      PROVE  \E p \in Peers : M!Forget(p)
  <2>1. PICK g \in guests : g.number = n
    BY DEF Numbers
  <2>2. guests' = guests \ {g} /\ invites' = invites
    BY <2>1, <1>3 DEF remove_guest, DbInv, KeysUnique
  <2>3. \A h \in guests : h.peer = g.peer => h = g
    BY DEF DbInv, KeysUnique
  <2>4. Members' = {m \in Members : m[1] # g.peer}
    BY <2>2, <2>3
  <2>5. Barred' = Barred \ {g.peer}
    BY <2>2, <2>3
  <2>6. Offers' = Offers /\ Spent' = Spent
    BY <2>2
  <2>7. <<g.peer, g.user>> \in Members /\ <<g.peer, g.user>>[1] = g.peer
    OBVIOUS
  <2>8. M!Forget(g.peer)
    BY <2>4, <2>5, <2>6, <2>7 DEF M!Forget, M!Member
  <2> QED
    BY <2>8 DEF DbTypeOK, GuestRow
<1>4. ASSUME NEW n \in Numbers, revoke_guest(n)
      PROVE  \E p \in Peers : M!Bar(p)
  <2>1. PICK g \in guests : g.number = n
    BY DEF Numbers
  <2> DEFINE r == [g EXCEPT !.revoked = TRUE]
  <2>2. r.peer = g.peer /\ r.user = g.user /\ r.revoked
    BY DEF DbTypeOK, GuestRow
  <2>3. \A h \in guests : h.number = n => h = g
    BY <2>1 DEF DbInv, KeysUnique
  <2>4. guests' = (guests \ {g}) \cup {r} /\ invites' = invites
    BY <1>4, <2>1, <2>3 DEF revoke_guest
  <2> HIDE DEF r
  <2>5. Members' = Members
    BY <2>2, <2>4
  <2>6. Barred' = Barred \cup {g.peer}
    BY <2>2, <2>4
  <2>7. Offers' = Offers /\ Spent' = Spent
    BY <2>4
  <2>8. <<g.peer, g.user>> \in Members /\ <<g.peer, g.user>>[1] = g.peer
    OBVIOUS
  <2>9. M!Bar(g.peer)
    BY <2>5, <2>6, <2>7, <2>8 DEF M!Bar, M!Member
  <2> QED
    BY <2>9 DEF DbTypeOK, GuestRow
<1>5. ASSUME invites' = invites, guests' = guests
      PROVE  UNCHANGED M!memVars
  BY <1>5 DEF M!memVars
<1>6. CASE Tick
  BY <1>5, <1>6 DEF Tick
<1>7. CASE UNCHANGED dbVars
  BY <1>5, <1>7 DEF dbVars
<1>8. ASSUME NEW s \in Secrets, NEW p \in Peers, redeem_invite(s, p),
             Redemption(s, p) # "Redeemed"
      PROVE  UNCHANGED M!memVars
  BY <1>5, <1>8 DEF redeem_invite, dbVars
<1> QED
  BY <1>1, <1>2, <1>3, <1>4, <1>6, <1>7, <1>8 DEF DbNext, M!MemNext

\* StateDb implements the abstract membership of a share.
THEOREM DbImplementsMembership == DbSpec => ImplementsMembership
<1>1. DbInit => M!MemInit
  BY DEF DbInit, M!MemInit
<1>2. DbTypeOK /\ DbInv /\ [DbNext]_dbVars => [M!MemNext]_M!memVars
  BY StepsImplementMembership
<1> QED
  BY <1>1, <1>2, DbTypeCorrect, DbInvariant, PTL DEF DbSpec, ImplementsMembership, M!MemSpec
=============================================================================
