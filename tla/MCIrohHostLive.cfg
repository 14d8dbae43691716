SPECIFICATION FairSpec
CONSTANTS
  Peers = {p1}
  Secrets = {s1}
  Users = {u1}
  InviteValidity = 1
  MaxTime = 1
  ConnsPerPeer = 2
  Requests = {}
PROPERTIES
  RevokeReturns
  RevokedCutOff
  ShutdownCompletes
