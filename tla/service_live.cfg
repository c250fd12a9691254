CONSTANTS
  PRs = {a}
  Handoff = {}
  MaxRuns = 5
  MaxBase = 1
  MaxPush = 1
  Faults = {}
SPECIFICATION FairSpec
PROPERTY RipePasses
CHECK_DEADLOCK FALSE
