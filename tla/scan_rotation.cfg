CONSTANTS
  NPrs = 4
  Window = 3
  Soft = 10
  Hard = 11
  Resolving = 1
  Gets <- UnevenGets
  Fetches <- RetainedFetches
  Retained = {2}
  Faults = {"crash", "get", "merge", "close"}
SPECIFICATION FairSpec
INVARIANTS IInv
PROPERTIES NonePassedOver NoneOvertaken ImplementsRotation EvaluatedInTurn
