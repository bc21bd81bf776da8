SPECIFICATION ServingSpec
CONSTANTS
  Probe = p
  Callers = {a}
  Strangers = {s, t}
  MaxPending = 2
  MaxConnections = 2
  MaxCalls = 1
  Requests = {1, 2}
  PerSecond = 2
  Second = 3
  MaxClock = 5
  Agents = {g}
  MaxFaultRules = 1
  MaxBaselines = 1
  NoCommand = "none"
  Misshapen = {"navigate"}
  Disableable <- MCDisableable
  Lists <- MCLists
  Commands <- MCCommands
  None = None
  MaxEvents = 1
  MaxCheckpoints = 2
  Ids = {k1, k2, k3}
  MaxTaken = 2
  MaxGenerations = 2
INVARIANTS TimeIsPaidOnce NoSideDoors RefusalsComeFirst SessionsAreExact
PROPERTIES DoorsStayOpen
CHECK_DEADLOCK FALSE
