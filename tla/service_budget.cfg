CONSTANTS
  PRs = {a}
  Handoff <- HandedOffAtFirst
  MaxRuns = 3
  MaxBase = 1
  MaxPush = 1
  Faults = {"crash", "post", "get", "stale"}
SPECIFICATION Spec
INVARIANTS IInv OneRequestPerOriginal PassedOnEvidence RecordedOrSuspended
PROPERTIES PreparedByCompletedRun ReceiptVisibleAtRerun RetainedStoodStill
CHECK_DEADLOCK FALSE
