CONSTANTS
  NRuns = 3
  Created <- LateTie
  Floor = 1
  Keys = {k1, k2}
  MaxHistory = 3
  MaxReruns = 0
  Faults = {"crash", "cancel", "skip", "lost", "read", "lag"}
SPECIFICATION Spec
INVARIANTS AtMostOneEffect EffectExclusion CheckpointCovers IInv
PROPERTIES OlderActorsRefused LostEvidenceSuspends ImplementsLock
CHECK_DEADLOCK FALSE
