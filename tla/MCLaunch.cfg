SPECIFICATION MCSpec
CONSTANTS
  None = None
  Cmds <- MCCmds
  Handles = {1, 2}
  MaxPanes = 3
  Worlds <- MCWorlds
  p1 = p1
  p2 = p2
  x1 = x1
  x2 = x2
  Nil = Nil
  Callers = {p1, p2}
  Dirs = {d1, d2}
  Agents = {x1, x2}
  Wants <- MCWants
  Requests <- MCRequests
  MaxBind = 2
  Turmoil = 1
  Parts = {"session", "apply"}
CHECK_DEADLOCK FALSE
INVARIANTS OneLeaseHolder NoDuplicateLayout EveryPaneAccounted OneAgentPerTicket OneFounder ActsOnApproved RosterKept
