SPECIFICATION ClientsSpec
CONSTANTS
  Scenarios = {"rendezvous"}
  Pids = {p1, p2}
  Ids = {id1, id2}
  Ports = {7, 8}
  Reuse = {"other"}
  Explicit = TRUE
  MaxStarts = 2
  MaxCalls = 2
  None = None
  NoDir = NoDir
  MaxForeign = 1
  Targets <- MCTargets
  UserLevel = {"windsurf"}
  MaxCommands = 2
  MaxImages = 2
  MaxAppChanges = 2
  Unset = Unset
  Order <- MCOrder
  Forms <- MCForms
  Expectations <- MCExpectations
  MaxMatches = 2
  MaxPolls = 1
  MaxChanges = 1
  Commands = {"a", "b"}
  Handled = {"a"}
  Registered = {"a"}
  Window = 1
  MaxInvokes = 2
  MaxTime = 2
  MaxReloads = 1
  Size = 3
  Edges = {"child", "shadow", "frame"}
  Visibles = {"inherit", "hidden", "visible"}
  Words = {"", "w"}
  Caps = {0, 1, 3}
  MaxChars = 2
  MaxPair = 1
  Letters = {"a", "1", "g", "-", "quote", "backslash", "space", "newline", "nul", "us", "bracket", "rtl"}
INVARIANT CallsStayWithTheApp
CHECK_DEADLOCK FALSE
