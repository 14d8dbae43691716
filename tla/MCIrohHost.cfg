SPECIFICATION Spec
CONSTANTS
  Peers = {p1, p2}
  Secrets = {s1, s2}
  Users = {u1, u2}
  InviteValidity = 1
  MaxTime = 0
  ConnsPerPeer = 1
  Requests = {r1, r2}
SYMMETRY Symmetry
INVARIANTS
  HostTypeOK
  ServedIsGranted
  RevokeMissesOnlyRaces
  BarredUnlessLeft
PROPERTIES
  DbSpec
  LeavesTakeTheirOwn
