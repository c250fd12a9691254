CONSTANTS
  plain = plain
  dated = dated
  image = image
  hub = hub
  lock = lock
  lens = lens
  Packages = {plain, dated}
  Images = {image, hub}
  Unheld = {hub}
  Published <- PublishedAt
  Candidates = {lock, lens}
  Intro <- Additions
  Exempt = {lens}
  Invalid = {}
  Hold = 1
  Capacity = 1
  NRuns = 3
  MaxTime = 3
  Faults = {"fetch", "crash", "lost", "refuse"}
SPECIFICATION Spec
INVARIANTS IInv AgedOnMain
PROPERTY ObservationsKept
CHECK_DEADLOCK FALSE
