CONSTANTS
  PRs = {p, q}
  MaxTarget = 2
  MaxSource = 1
  MaxGroup = 2
  MaxChanges = 3
  Faults = {"get"}
SPECIFICATION FairSpec
INVARIANTS BoundWasLive OnlyTargetMoved IInv
PROPERTIES QuietResolves ReadsAtOneMoment
