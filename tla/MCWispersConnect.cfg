SPECIFICATION WCLiveSpec
CONSTANTS
  Guests = {g1, g2}
  NodeQuotas = {2, 3}
  MaxFaults = 2
INVARIANTS WCInv RevokedNotServed
PROPERTIES RevokeCompletes
CHECK_DEADLOCK FALSE
