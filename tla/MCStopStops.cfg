SPECIFICATION HostShareLiveSpec
CONSTANTS
  Procs = {p1, p2}
  Transports = {"wispers-connect"}
  MaxVersion = 0
  GroupQuota = 1
  EventCap = 1
  MaxFaults = 0
PROPERTIES StopStops
CHECK_DEADLOCK FALSE
