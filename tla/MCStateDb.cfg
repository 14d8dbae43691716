SPECIFICATION DbSpec
CONSTANTS
  Peers = {p1, p2, p3}
  Secrets = {s1, s2, s3}
  Users = {u1, u2}
  InviteValidity = 1
  MaxTime = 2
SYMMETRY Symmetry
INVARIANTS
  DbTypeOK
  DbInv
  RetryAnswered
PROPERTIES
  ImplementsMembership
