SPECIFICATION PageSpec
CONSTANTS
  MaxEntries = 3
  MaxDepth = 3
  Careless = {}
  Calls = {c1, c2}
  Waiters = {w1}
  CapNetwork = 2
  MaxOther = 1
  Nodes = {n1, n2}
  RefMapLimit = 1
  MaxLoads = 2
  MaxAttempts = 1
  Scrubs = {s1, s2}
  Elements = {e1, e2}
  Restore = {TRUE}
  MaxEnds = 1
  MaxArms = 2
  NoScrub = none
SYMMETRY PageSymmetry
INVARIANTS PendingIsOnItsWay CallsAreTold AnimationsAreTheirs
PROPERTIES AgentsSeeThePage
CHECK_DEADLOCK FALSE
