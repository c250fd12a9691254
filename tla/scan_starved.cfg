CONSTANTS
  NPrs = 3
  Window = 3
  Soft = 9
  Hard = 10
  Resolving = 1
  Gets <- StarvingGets
  Fetches <- StarvingFetches
  Retained = {3}
  Faults = {}
SPECIFICATION FairSpec
PROPERTY EachInTurn
