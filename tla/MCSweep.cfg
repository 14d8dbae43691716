SPECIFICATION FairSpec
CONSTANTS
  Shares = {i1}
  Tasks = {t1}
  Names = {n1}
  MaxSuffix = 1
  Ops = {"join"}
PROPERTIES SweepLeavesNone
