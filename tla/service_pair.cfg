CONSTANTS
  PRs = {a, b}
  Handoff = {}
  MaxRuns = 4
  MaxBase = 0
  MaxPush = 0
  Faults = {}
SPECIFICATION Spec
PROPERTY RestartedWaiterSeesReceipt
CHECK_DEADLOCK FALSE
