CONSTANTS
  Tasks = {t1, t2}
  Kinds = {"iroh", "wispers-connect"}
  MaxVersion = 1
  MaxFaults = 2
SPECIFICATION GuestSpec
CHECK_DEADLOCK FALSE
INVARIANTS GuestInv TerminalIsTold
PROPERTIES LiveConnectionKept
