CONSTANTS
  Tasks = {t1, t2}
  Kinds = {"iroh"}
  MaxVersion = 1
  MaxFaults = 1
SPECIFICATION GuestLiveSpec
CHECK_DEADLOCK FALSE
PROPERTIES CallsReturn RefreshCatchesUp
