SPECIFICATION HostShareSpec
CONSTANTS
  Procs = {p1, p2}
  Transports = {"iroh", "wispers-connect"}
  MaxVersion = 1
  GroupQuota = 2
  EventCap = 2
  MaxFaults = 1
INVARIANTS HostShareInv GuestsHearReloads GroupsAccounted
CHECK_DEADLOCK FALSE
SYMMETRY ProcSymmetry
