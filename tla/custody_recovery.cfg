SPECIFICATION Spec
CONSTANTS
  MaxChecks = 1
  MaxFaults = 1
  Faults = {"kill guard"}
PROPERTY OwnerRetainsRecovery
CHECK_DEADLOCK FALSE
