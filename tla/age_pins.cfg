CONSTANTS
  plain = plain
  dated = dated
  image = image
  hub = hub
  lock = lock
  lens = lens
  Packages = {plain, dated}
  Images = {image, hub}
  Unheld = {hub}
  Published <- PublishedAt
  Candidates = {lock, lens}
  Intro <- PinOnly
  Exempt = {}
  Invalid = {}
  Hold = 1
  Capacity = 1
  NRuns = 2
  MaxTime = 3
  Faults = {}
SPECIFICATION Spec
INVARIANT ThirdPartyAged
CHECK_DEADLOCK FALSE
