SPECIFICATION PortsLiveSpec
CONSTANTS
  k1 = k1
  Keys = {k1}
  NumPorts = 2
  Wants <- MCWants
  Kinds = {"per-app", "per-share", "forwarder"}
  Tasks = {t1, t2}
  NumCells = 4
INVARIANTS PortsInv OpenIsOwned
PROPERTIES PortCallsReturn
