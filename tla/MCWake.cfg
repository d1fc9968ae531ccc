SPECIFICATION MCSpec
CONSTANTS
  p = p
  q = q
  r = r
  x = x
  d = d
  s = s
  o1 = o1
  o2 = o2
  i1 = i1
  i2 = i2
  Procs = {p, q, r, x, d, s}
  Opaque = {x}
  Detached = {d}
  Sharing = {s}
  Owners = {o1, o2}
  Injectors = {i1, i2}
  Seconds = {1, 2}
  Roles <- MCRoles
  None = None
  Callers = {c1, c2}
  Images = {1, 2}
  Asked = {2}
  MaxRequest = 2
  MaxLease = 3
  MaxInstall = 1
  MaxStart = 2
  Absent = Absent
  Parts = {"commands", "restart"}
SYMMETRY CallersAlike
INVARIANTS BoundClaimReadable OneWake RepairInherits NoStrandedRequest StagesAccounted
PROPERTIES LiveOwnerKept ReadyMeansPrepared
CHECK_DEADLOCK FALSE
