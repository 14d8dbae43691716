SPECIFICATION FairSpec
CONSTANTS
  Shares = {i1}
  Tasks = {t1, t2}
  Names = {n1}
  MaxSuffix = 1
  Ops = {"join", "restore", "leave"}
INVARIANTS
  SharesTypeOK
  ListedIsWhole
  KeysAccounted
  GhostsAccounted
  OneNodePerShare
PROPERTY LeaveEnds
