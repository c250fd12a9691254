CONSTANTS
  NRuns = 4
  Created <- DistinctTimes
  Floor = 1
  Keys = {k1}
  MaxHistory = 3
  MaxReruns = 1
  Faults = {"crash", "rerun"}
SPECIFICATION SerialSpec
INVARIANT IInv
PROPERTY Entitled
CHECK_DEADLOCK FALSE
